---------------------------- MODULE Spec2Model ----------------------------
(***************************************************************************)
(* A model of the sail geometry engine of the shade sail visualiser:       *)
(* client/src/components/CanvasWorkspace.tsx (path simplification, curved  *)
(* path building, freehand capture, the sails on the canvas) and           *)
(* client/src/components/PerspectiveTransform.tsx (the four-corner         *)
(* perspective estimator).                                                  *)
(*                                                                         *)
(* Arithmetic.  The program computes in IEEE doubles; the model computes   *)
(* in exact rationals.  Coordinates are integers, a distance is kept as    *)
(* the fraction num/den of its square (Math.sqrt is monotone, so every     *)
(* comparison of two distances is the comparison of their squares), and a  *)
(* control point is kept as integer numerators over a stated denominator.  *)
(***************************************************************************)
EXTENDS Integers, Sequences, FiniteSets, TLC

VARIABLES
    \* ---- path simplifier harness (simplifyPath as a pure function)
    sPhase,        \* "in" before the calls, "out" after them
    sPoints,       \* the input point sequence P
    sTol1, sTol2,  \* the two tolerances, sTol1 < sTol2
    sOut1, sOut2,  \* simplifyPath(P, sTol1), simplifyPath(P, sTol2)
    sAgain,        \* simplifyPath(sOut1, sTol1)
    sStack,        \* the calls of simplifyPath not yet made, the next one first
    \* ---- curved-path builder harness (polygonToMixedPath / polygonToCurvedPath)
    pPhase,        \* "in" before the calls, "out" after them
    pPoly,         \* the polygon: a sequence of points
    pFlags,        \* the curve profile: a sequence of booleans
    pSag,          \* the sag ratio, a fraction num/den
    pMixed,        \* polygonToMixedPath(pPoly, pFlags, pSag)
    pCurved,       \* polygonToCurvedPath(pPoly, pSag)
    \* ---- the canvas workspace (CanvasWorkspace component and its fabric canvas)
    canvasObjects,        \* fabricCanvasRef.current.getObjects(), in stacking order
    activeObject,         \* index in canvasObjects of the active object, 0 for none
    isDrawMode,           \* the isDrawMode prop (state of ShadeSailVisualizer)
    drawnPoints,          \* drawnPointsRef.current (mirrored by the drawnPoints state)
    showSmoothingSlider,  \* the showSmoothingSlider state
    smoothingTolerance,   \* the smoothingTolerance state
    previewLineRef,       \* previewLineRef.current: "null", or a preview line that is
                          \* "onCanvas" or has been "removed" from the canvas
    lastCall,             \* the last operation and what it returned or did
    \* ---- perspective estimator harness (one PerspectiveTransform and its object)
    tPhase,        \* "in" before the call, "out" after it; "live" for an instance
                   \* that is operated on again and again
    tBounds,       \* what object.getBoundingRect() returns
    tPreset,       \* the preset applied, "none" for dragged anchors
    tCorners,      \* the corners handed to applyPerspectiveTransform
    tObject,       \* the properties object.set(...) received
    tAnchors,      \* anchorControls: the anchors with their left and top
    tOriginal,     \* originalPoints: the corners read by the constructor
    tRefreshes,    \* how often the coordinates of the object were recomputed
    tApplied,      \* how often applyPerspectiveTransform was called
    \* ---- the application shell (ShadeSailVisualizer and its PostManager)
    uploadedImage,    \* the uploadedImage state: TRUE when it holds a file
    canvas,           \* the canvas state: a fabric canvas, 0 for null
    postManager,      \* the postManager state: its canvas (0 for no manager),
                      \* the ids of its posts map and its nextId
    fabricCanvases,   \* the fabric canvases created so far, each with the post
                      \* objects on it and whether it was disposed
    fabricCanvasRef   \* the canvas of the mounted CanvasWorkspace, 0 when none
                      \* is mounted: the canvas on display

simplifyVars == <<sPhase, sPoints, sTol1, sTol2, sOut1, sOut2, sAgain, sStack>>

pathVars == <<pPhase, pPoly, pFlags, pSag, pMixed, pCurved>>

canvasVars == <<canvasObjects, activeObject, isDrawMode, drawnPoints,
                showSmoothingSlider, smoothingTolerance, previewLineRef, lastCall>>

perspVars == <<tPhase, tBounds, tPreset, tCorners, tObject, tAnchors, tOriginal,
               tRefreshes, tApplied>>

appVars == <<uploadedImage, canvas, postManager, fabricCanvases, fabricCanvasRef>>

harnessVars == <<simplifyVars, pathVars, perspVars, appVars>>

vars == <<simplifyVars, pathVars, canvasVars, perspVars, appVars>>

----------------------------------------------------------------------------
(* Geometry primitives *)

Pt(px, py) == [x |-> px, y |-> py]

Abs(n) == IF n < 0 THEN -n ELSE n

Min(a, b) == IF a < b THEN a ELSE b

\* A non-negative rational num/den, den > 0.
Frac(n, d) == [num |-> n, den |-> d]

\* a > b, comparing whole parts first and then the fractional parts, so that
\* no product leaves the 32-bit range of the model checker's integers.
FracGreater(a, b) ==
    IF a.num \div a.den # b.num \div b.den
    THEN a.num \div a.den > b.num \div b.den
    ELSE (a.num % a.den) * b.den > (b.num % b.den) * a.den

\* Squared value of perpendicularDistance(point, lineStart, lineEnd): the
\* distance from point to the SEGMENT (t is clamped to [0,1]).
perpendicularDistanceSq(point, lineStart, lineEnd) ==
    LET dx == lineEnd.x - lineStart.x
        dy == lineEnd.y - lineStart.y
        pointDx == point.x - lineStart.x
        pointDy == point.y - lineStart.y
        lenSq == dx * dx + dy * dy
        dot == pointDx * dx + pointDy * dy
        cross == pointDx * dy - pointDy * dx
    IN  IF dx = 0 /\ dy = 0
        THEN Frac(pointDx * pointDx + pointDy * pointDy, 1)
        ELSE IF dot <= 0                      \* t clamps to 0
        THEN Frac(pointDx * pointDx + pointDy * pointDy, 1)
        ELSE IF dot >= lenSq                  \* t clamps to 1
        THEN Frac((point.x - lineEnd.x) * (point.x - lineEnd.x)
                  + (point.y - lineEnd.y) * (point.y - lineEnd.y), 1)
        ELSE Frac(cross * cross, lenSq)       \* foot of the perpendicular

\* distance > tolerance, for tolerance >= 0
ExceedsTolerance(dSq, tolerance) == dSq.num > tolerance * tolerance * dSq.den

\* Mutant: on ties the loop keeps the last index of the greatest distance.
RECURSIVE MaxScanLatest(_, _, _, _)
MaxScanLatest(points, i, maxDistance, maxIndex) ==
    IF i >= Len(points) - 1
    THEN [maxDistance |-> maxDistance, maxIndex |-> maxIndex]
    ELSE LET distance == perpendicularDistanceSq(points[i + 1], points[1], points[Len(points)])
         IN  IF ~FracGreater(maxDistance, distance)
             THEN MaxScanLatest(points, i + 1, distance, i)
             ELSE MaxScanLatest(points, i + 1, maxDistance, maxIndex)

\* The for loop of simplifyPath: i runs over the interior indices (0-based),
\* keeping the first index of the strictly greatest distance.
RECURSIVE MaxScan(_, _, _, _)
MaxScan(points, i, maxDistance, maxIndex) ==
    IF i >= Len(points) - 1
    THEN [maxDistance |-> maxDistance, maxIndex |-> maxIndex]
    ELSE LET distance == perpendicularDistanceSq(points[i + 1], points[1], points[Len(points)])
         IN  IF FracGreater(distance, maxDistance)
             THEN MaxScan(points, i + 1, distance, i)
             ELSE MaxScan(points, i + 1, maxDistance, maxIndex)

\* Array.prototype.slice(from) and slice(from, to), 0-based, to exclusive
Slice(s, from, to) == SubSeq(s, from + 1, to)

Tail1(s) == SubSeq(s, 2, Len(s))

\* Mutant: the tolerance test inverted (split when the farthest point is
\* within tolerance, collapse when it is beyond).
RECURSIVE simplifyPathInverted(_, _)
simplifyPathInverted(points, tolerance) ==
    IF Len(points) <= 2 THEN points
    ELSE LET m == MaxScan(points, 1, Frac(0, 1), 0)
         IN  IF m.maxIndex > 0 /\ ~ExceedsTolerance(m.maxDistance, tolerance)
             THEN LET leftPart == simplifyPathInverted(Slice(points, 0, m.maxIndex + 1), tolerance)
                      rightPart == simplifyPathInverted(Slice(points, m.maxIndex, Len(points)), tolerance)
                  IN  leftPart \o Tail1(rightPart)
             ELSE <<points[1], points[Len(points)]>>

\* Mutant: the two halves concatenated without dropping the shared split point.
RECURSIVE simplifyPathNoDedupe(_, _)
simplifyPathNoDedupe(points, tolerance) ==
    IF Len(points) <= 2 THEN points
    ELSE LET m == MaxScan(points, 1, Frac(0, 1), 0)
         IN  IF ExceedsTolerance(m.maxDistance, tolerance)
             THEN LET leftPart == simplifyPathNoDedupe(Slice(points, 0, m.maxIndex + 1), tolerance)
                      rightPart == simplifyPathNoDedupe(Slice(points, m.maxIndex, Len(points)), tolerance)
                  IN  leftPart \o rightPart
             ELSE <<points[1], points[Len(points)]>>

\* Mutant: a collapsed run keeps its first two points instead of its two ends.
RECURSIVE simplifyPathWrongEnd(_, _)
simplifyPathWrongEnd(points, tolerance) ==
    IF Len(points) <= 2 THEN points
    ELSE LET m == MaxScan(points, 1, Frac(0, 1), 0)
         IN  IF ExceedsTolerance(m.maxDistance, tolerance)
             THEN LET leftPart == simplifyPathWrongEnd(Slice(points, 0, m.maxIndex + 1), tolerance)
                      rightPart == simplifyPathWrongEnd(Slice(points, m.maxIndex, Len(points)), tolerance)
                  IN  leftPart \o Tail1(rightPart)
             ELSE <<points[1], points[2]>>

RECURSIVE simplifyPath(_, _)
simplifyPath(points, tolerance) ==
    IF Len(points) <= 2 THEN points
    ELSE LET m == MaxScan(points, 1, Frac(0, 1), 0)
         IN  IF ExceedsTolerance(m.maxDistance, tolerance)
             THEN LET leftPart == simplifyPath(Slice(points, 0, m.maxIndex + 1), tolerance)
                      rightPart == simplifyPath(Slice(points, m.maxIndex, Len(points)), tolerance)
                  IN  leftPart \o Tail1(rightPart)
             ELSE <<points[1], points[Len(points)]>>

----------------------------------------------------------------------------
(* Curved-path builder *)

\* The centroid is the mean of the points; the model keeps the two sums and
\* divides by Len(points) only inside comparisons.
RECURSIVE SumX(_)
SumX(points) == IF points = <<>> THEN 0 ELSE Head(points).x + SumX(Tail(points))

RECURSIVE SumY(_)
SumY(points) == IF points = <<>> THEN 0 ELSE Head(points).y + SumY(Tail(points))

\* edgeLength < 1, on the squared length
EdgeTooShort(currentPoint, nextPoint) ==
    LET ex == nextPoint.x - currentPoint.x
        ey == nextPoint.y - currentPoint.y
    IN  ex * ex + ey * ey < 1

\* Mutant: the comparison of the two candidate normals reversed (dist1 > dist2).
Dist1Greater(points, currentPoint, nextPoint) ==
    LET n == Len(points)
        ex == nextPoint.x - currentPoint.x
        ey == nextPoint.y - currentPoint.y
        mx == n * (currentPoint.x + nextPoint.x) - 2 * SumX(points)
        my == n * (currentPoint.y + nextPoint.y) - 2 * SumY(points)
    IN  (-ey) * mx + ex * my > 0

\* dist1 < dist2 of the builders, where dist_k = |midpoint + normal_k - centroid|^2,
\* normal1 = (-ey, ex)/L and normal2 = -normal1.  dist1 - dist2 =
\* 4 * normal1 . (midpoint - centroid), so with n = Len(points) the test is
\* (-ey, ex) . (n*(current + next) - 2*Sum) < 0   (scaled by 2*n*L > 0).
Dist1Less(points, currentPoint, nextPoint) ==
    LET n == Len(points)
        ex == nextPoint.x - currentPoint.x
        ey == nextPoint.y - currentPoint.y
        mx == n * (currentPoint.x + nextPoint.x) - 2 * SumX(points)
        my == n * (currentPoint.y + nextPoint.y) - 2 * SumY(points)
    IN  (-ey) * mx + ex * my < 0

\* Mutant: the control point offset by curveDepth instead of 2 * curveDepth.
CurveCommandHalfDepth(points, currentPoint, nextPoint, sagRatio) ==
    LET ex == nextPoint.x - currentPoint.x
        ey == nextPoint.y - currentPoint.y
        sgn == IF Dist1Less(points, currentPoint, nextPoint) THEN 1 ELSE -1
    IN  [op |-> "Q",
         cx |-> (currentPoint.x + nextPoint.x) * sagRatio.den + 2 * sagRatio.num * sgn * (-ey),
         cy |-> (currentPoint.y + nextPoint.y) * sagRatio.den + 2 * sagRatio.num * sgn * ex,
         den |-> 2 * sagRatio.den,
         x |-> nextPoint.x, y |-> nextPoint.y]

\* The quadratic-curve command of one edge.  controlPoint = midpoint +
\* 2 * curveDepth * inwardNormal with curveDepth = edgeLength * sagRatio and
\* inwardNormal = +-(-ey, ex)/edgeLength, so the edge length cancels:
\* controlPoint = (current + next)/2 + 2 * sagRatio * (+-(-ey, ex)).
\* It is kept as (cx, cy) / den with den = 2 * sagRatio.den.
CurveCommand(points, currentPoint, nextPoint, sagRatio) ==
    LET ex == nextPoint.x - currentPoint.x
        ey == nextPoint.y - currentPoint.y
        sgn == IF Dist1Less(points, currentPoint, nextPoint) THEN 1 ELSE -1
    IN  [op |-> "Q",
         cx |-> (currentPoint.x + nextPoint.x) * sagRatio.den + 4 * sagRatio.num * sgn * (-ey),
         cy |-> (currentPoint.y + nextPoint.y) * sagRatio.den + 4 * sagRatio.num * sgn * ex,
         den |-> 2 * sagRatio.den,
         x |-> nextPoint.x, y |-> nextPoint.y]

LineCommand(nextPoint) == [op |-> "L", x |-> nextPoint.x, y |-> nextPoint.y]

MoveCommand(point) == [op |-> "M", x |-> point.x, y |-> point.y]

CloseCommand == [op |-> "Z"]

\* points[(i + 1) % points.length], i 0-based
NextPoint(points, i) == points[((i + 1) % Len(points)) + 1]

\* Mutant: the curve flag of the next edge is read (curvedEdges[i + 1]).
ShouldCurveNextEdge(curvedEdges, i) == IF i + 2 <= Len(curvedEdges) THEN curvedEdges[i + 2] ELSE FALSE

\* Mutant: a missing flag is curved.
ShouldCurveUnlessFalse(curvedEdges, i) == IF i + 1 <= Len(curvedEdges) THEN curvedEdges[i + 1] ELSE TRUE

\* curvedEdges[i] || false, i 0-based: a missing flag is straight
ShouldCurve(curvedEdges, i) == IF i + 1 <= Len(curvedEdges) THEN curvedEdges[i + 1] ELSE FALSE

\* The for loop of polygonToMixedPath, from edge i (0-based) on.
RECURSIVE MixedEdges(_, _, _, _)
MixedEdges(points, curvedEdges, sagRatio, i) ==
    IF i >= Len(points) THEN <<>>
    ELSE LET currentPoint == points[i + 1]
             nextPoint == NextPoint(points, i)
             rest == MixedEdges(points, curvedEdges, sagRatio, i + 1)
         IN  IF EdgeTooShort(currentPoint, nextPoint) THEN rest
             ELSE IF ShouldCurve(curvedEdges, i)
             THEN <<CurveCommand(points, currentPoint, nextPoint, sagRatio)>> \o rest
             ELSE <<LineCommand(nextPoint)>> \o rest

\* The empty sequence stands for the empty string '' (fewer than 3 points).
polygonToMixedPath(points, curvedEdges, sagRatio) ==
    IF Len(points) < 3 THEN <<>>
    ELSE <<MoveCommand(points[1])>> \o MixedEdges(points, curvedEdges, sagRatio, 0)
         \o <<CloseCommand>>

\* The for loop of polygonToCurvedPath, from edge i (0-based) on.
RECURSIVE CurvedEdges(_, _, _)
CurvedEdges(points, sagRatio, i) ==
    IF i >= Len(points) THEN <<>>
    ELSE LET currentPoint == points[i + 1]
             nextPoint == NextPoint(points, i)
             rest == CurvedEdges(points, sagRatio, i + 1)
         IN  IF EdgeTooShort(currentPoint, nextPoint) THEN rest
             ELSE <<CurveCommand(points, currentPoint, nextPoint, sagRatio)>> \o rest

polygonToCurvedPath(points, sagRatio) ==
    IF Len(points) < 3 THEN <<>>
    ELSE <<MoveCommand(points[1])>> \o CurvedEdges(points, sagRatio, 0)
         \o <<CloseCommand>>

----------------------------------------------------------------------------
(* Sails and the canvas *)

\* The sag ratio 0.05 passed at every call site of the two builders.
CallSagRatio == [num |-> 1, den |-> 20]

\* Twice the value before Math.abs(area / 2) of calculatePolygonArea.
RECURSIVE ShoelaceSum(_, _)
ShoelaceSum(points, i) ==
    IF i >= Len(points) THEN 0
    ELSE LET a == points[i + 1]
             b == points[((i + 1) % Len(points)) + 1]
         IN  a.x * b.y - b.x * a.y + ShoelaceSum(points, i + 1)

\* 2 * calculatePolygonArea(points)
calculatePolygonAreaTwice(points) ==
    IF Len(points) < 3 THEN 0 ELSE Abs(ShoelaceSum(points, 0))

DistanceSq(a, b) == (a.x - b.x) * (a.x - b.x) + (a.y - b.y) * (a.y - b.y)

IsSail(obj) == obj.kind = "sail"

IsTemporary(obj) == obj.kind \in {"line", "circle", "preview"}

Sails(objects) == SelectSeq(objects, IsSail)

\* The indices in objects of its sails, in order.
SailIndices(objects) == SelectSeq([k \in 1..Len(objects) |-> k], LAMBDA k : IsSail(objects[k]))

AllTrue(n) == [k \in 1..n |-> TRUE]

\* canvas.remove(objects[i])
RemoveAt(objects, i) == SubSeq(objects, 1, i - 1) \o SubSeq(objects, i + 1, Len(objects))

\* Removing every temporary object (cleanupDrawingObjects, the draw-mode effect).
WithoutTemporary(objects) == SelectSeq(objects, LAMBDA o : ~IsTemporary(o))

ActiveWithoutTemporary(objects, active) ==
    IF active = 0 THEN 0
    ELSE IF IsTemporary(objects[active]) THEN 0
    ELSE Cardinality({k \in 1..active : ~IsTemporary(objects[k])})

\* Mutant: leaving draw mode keeps the temporary objects on the canvas.
ExitDrawModeKeepsMarkers(objects, active) ==
    /\ isDrawMode' = FALSE
    /\ drawnPoints' = <<>>
    /\ showSmoothingSlider' = FALSE
    /\ previewLineRef' = "null"
    /\ canvasObjects' = objects
    /\ activeObject' = active

\* The draw-mode effect when isDrawMode has become false (onDrawModeExit or
\* the toggle): the session is dropped and the temporary objects removed.
ExitDrawMode(objects, active) ==
    /\ isDrawMode' = FALSE
    /\ drawnPoints' = <<>>
    /\ showSmoothingSlider' = FALSE
    /\ previewLineRef' = "null"
    /\ canvasObjects' = WithoutTemporary(objects)
    /\ activeObject' = ActiveWithoutTemporary(objects, active)

\* The maximum number of sails (existingSails.length >= 10).
MaxSails == 10

\* The simplified points above which createSailFromDrawnPath simplifies again.
MaxSimplifiedPoints == 12

\* Twice the area threshold 500.
MinAreaTwice == 1000

\* Mutant: the sail limit tested with > instead of >=.
SailLimitReachedOffByOne(objects) == Len(Sails(objects)) > MaxSails

SailLimitReached(objects) == Len(Sails(objects)) >= MaxSails

\* The points createSailFromDrawnPath simplifies to (before the closing point).
SimplifiedForSail(points, tolerance) ==
    LET simplifiedPoints == simplifyPath(points, tolerance)
    IN  IF Len(simplifiedPoints) > MaxSimplifiedPoints
        THEN simplifyPath(points, tolerance * 2)
        ELSE simplifiedPoints

\* Mutant: the point pushed to close the polygon is a copy of the last point.
ClosePolygonWithLast(simplifiedPoints, tolerance) ==
    IF DistanceSq(simplifiedPoints[Len(simplifiedPoints)], simplifiedPoints[1])
         > tolerance * tolerance
    THEN Append(simplifiedPoints, simplifiedPoints[Len(simplifiedPoints)])
    ELSE simplifiedPoints

\* The closing point is pushed when the last point is farther than tolerance
\* from the first.
ClosePolygon(simplifiedPoints, tolerance) ==
    IF DistanceSq(simplifiedPoints[Len(simplifiedPoints)], simplifiedPoints[1])
         > tolerance * tolerance
    THEN Append(simplifiedPoints, simplifiedPoints[1])
    ELSE simplifiedPoints

\* Mutant: the area of the closed polygon is not tested.
DrawnOutcomeNoAreaTest(points, tolerance, objects) ==
    IF Len(points) < 3 THEN [result |-> "few"]
    ELSE IF Len(simplifyPath(points, tolerance)) < 3 THEN [result |-> "few"]
    ELSE LET closed == ClosePolygon(SimplifiedForSail(points, tolerance), tolerance)
         IN  IF SailLimitReached(objects) THEN [result |-> "limit"]
             ELSE [result |-> "sail", points |-> closed]

\* What createSailFromDrawnPath does with points: "few" (fewer than 3 points
\* given or left), "small" (area below 500), "limit", or "sail" with the polygon.
DrawnOutcome(points, tolerance, objects) ==
    IF Len(points) < 3 THEN [result |-> "few"]
    ELSE IF Len(simplifyPath(points, tolerance)) < 3 THEN [result |-> "few"]
    ELSE LET closed == ClosePolygon(SimplifiedForSail(points, tolerance), tolerance)
         IN  IF calculatePolygonAreaTwice(closed) < MinAreaTwice
             THEN [result |-> "small"]
             ELSE IF SailLimitReached(objects) THEN [result |-> "limit"]
             ELSE [result |-> "sail", points |-> closed]

\* A sail object keeps, as pathData, the builder call that produced the path
\* handed to new Path(...): the builder and the curve flags it was given (the
\* points are the sail's sailPoints, the sag ratio is CallSagRatio).  SailPath
\* is the path itself.
SailPath(sail) ==
    IF sail.pathData.builder = "polygonToCurvedPath"
    THEN polygonToCurvedPath(sail.sailPoints, CallSagRatio)
    ELSE polygonToMixedPath(sail.sailPoints, sail.pathData.curvedEdges, CallSagRatio)

\* left, top, angle, scaleX and scaleY of a Path created without them: left
\* and top are counted from the place fabric gives the path of the polygon.
InitialPlacement == [left |-> 0, top |-> 0, angle |-> 0, scaleX |-> 1, scaleY |-> 1]

\* Mutant: a drawn sail given one flag per stored point.
DrawnSailFlagPerPoint(points) ==
    [kind |-> "sail", sailPoints |-> points,
     curvedEdges |-> AllTrue(Len(points)),
     sailType |-> "drawn", shapeType |-> "none",
     placement |-> InitialPlacement,
     pathData |-> [builder |-> "polygonToCurvedPath", curvedEdges |-> <<>>]]

DrawnSail(points) ==
    [kind |-> "sail", sailPoints |-> points,
     curvedEdges |-> AllTrue(Len(points) - 1),
     sailType |-> "drawn", shapeType |-> "none",
     placement |-> InitialPlacement,
     pathData |-> [builder |-> "polygonToCurvedPath", curvedEdges |-> <<>>]]

\* The preset shapes of the selectedShape prop.
getShapePoints(shape) ==
    CASE shape = "triangle" -> <<Pt(100, 100), Pt(300, 80), Pt(200, 250)>>
      [] shape = "square" -> <<Pt(150, 120), Pt(270, 120), Pt(270, 240), Pt(150, 240)>>
      [] shape = "rectangle" -> <<Pt(120, 140), Pt(320, 140), Pt(320, 220), Pt(120, 220)>>
      [] OTHER -> <<Pt(100, 100), Pt(300, 80), Pt(200, 250)>>

Shapes == {"triangle", "square", "rectangle"}

PresetSail(shape) ==
    [kind |-> "sail", sailPoints |-> getShapePoints(shape),
     curvedEdges |-> AllTrue(Len(getShapePoints(shape))),
     sailType |-> "standard", shapeType |-> shape,
     placement |-> InitialPlacement,
     pathData |-> [builder |-> "polygonToCurvedPath", curvedEdges |-> <<>>]]

\* The bound on the variety of canvases the model explores: only the topmost
\* MaxVariedSails sails may differ from the default sail (the triangle preset,
\* every edge curved), a drawing session that holds points counting as one of
\* them.  Sails do not interact with each other.
MaxVariedSails == 1

IsDefaultSail(obj) ==
    /\ obj.sailType = "standard"
    /\ obj.shapeType = "triangle"
    /\ obj.curvedEdges = AllTrue(3)
    /\ obj.placement = InitialPlacement
    /\ obj.pathData.builder = "polygonToCurvedPath"

WithinVariety(objects, points) ==
    LET sails == Sails(objects)
        budget == MaxVariedSails - (IF points = <<>> THEN 0 ELSE 1)
    IN  \A k \in 1..Len(sails) : ~IsDefaultSail(sails[k]) => k > Len(sails) - budget

\* createSailFromDrawnPath(points, tolerance); call is the record the calling
\* handler leaves in lastCall, completed here with the result.
createSailFromDrawnPath(points, tolerance, call) ==
    LET outcome == DrawnOutcome(points, tolerance, canvasObjects)
    IN  /\ lastCall' = [call EXCEPT !.result = outcome.result]
        /\ IF outcome.result = "sail"
           THEN /\ WithinVariety(Append(canvasObjects, DrawnSail(outcome.points)), <<>>)
                /\ ExitDrawMode(Append(canvasObjects, DrawnSail(outcome.points)),
                                Len(canvasObjects) + 1)
                /\ UNCHANGED smoothingTolerance
           ELSE UNCHANGED <<canvasObjects, activeObject, isDrawMode, drawnPoints,
                            showSmoothingSlider, smoothingTolerance, previewLineRef>>

\* Click-to-close radius (distanceToFirst <= 15).
CloseRadius == 15

\* The tolerance handleMouseDown passes on a closing click.
CloseTolerance == 5

\* useState(5) of smoothingTolerance.
InitialSmoothingTolerance == 5

NoPoint == [x |-> 0, y |-> 0]

Call(op, point) == [op |-> op, point |-> point, result |-> "none"]

\* onDrawModeToggle(!isDrawMode) followed by the draw-mode effect.
ToggleDrawMode ==
    /\ lastCall' = Call("onDrawModeToggle", NoPoint)
    /\ IF isDrawMode
       THEN /\ ExitDrawMode(canvasObjects, activeObject)
            /\ UNCHANGED smoothingTolerance
       ELSE /\ isDrawMode' = TRUE
            /\ drawnPoints' = <<>>
            /\ previewLineRef' = "null"
            /\ UNCHANGED <<canvasObjects, activeObject, showSmoothingSlider,
                           smoothingTolerance>>

\* Mutant: the closing click accepted without the test for 3 captured points.
IsClosingClickAnyCount(points, point) ==
    /\ Len(points) >= 1
    /\ DistanceSq(point, points[1]) <= CloseRadius * CloseRadius

\* Mutant: the closing click accepted only strictly inside the radius.
IsClosingClickStrict(points, point) ==
    /\ Len(points) >= 3
    /\ DistanceSq(point, points[1]) < CloseRadius * CloseRadius

\* The two nested tests of handleMouseDown: at least 3 points captured and the
\* click within CloseRadius of the first of them.
IsClosingClick(points, point) ==
    /\ Len(points) >= 3
    /\ DistanceSq(point, points[1]) <= CloseRadius * CloseRadius

\* handleMouseDown, registered on the canvas while isDrawMode.
handleMouseDown(point) ==
    /\ isDrawMode
    /\ IF IsClosingClick(drawnPoints, point)
       THEN createSailFromDrawnPath(drawnPoints, CloseTolerance,
                                    Call("handleMouseDown", point))
       ELSE /\ WithinVariety(canvasObjects, Append(drawnPoints, point))
            /\ lastCall' = [Call("handleMouseDown", point) EXCEPT !.result = "appended"]
            /\ drawnPoints' = Append(drawnPoints, point)
            /\ canvasObjects' =
                  canvasObjects
                  \o (IF Len(drawnPoints) + 1 > 1 THEN <<[kind |-> "line"]>> ELSE <<>>)
                  \o <<[kind |-> "circle"]>>
            /\ UNCHANGED <<activeObject, isDrawMode, showSmoothingSlider,
                           smoothingTolerance, previewLineRef>>

\* The Finish Shape button, rendered while isDrawMode with at least 3 points
\* and the smoothing controls hidden.
handleFinishDrawing ==
    /\ isDrawMode /\ Len(drawnPoints) >= 3 /\ ~showSmoothingSlider
    /\ lastCall' = Call("handleFinishDrawing", NoPoint)
    /\ showSmoothingSlider' = (IF Len(drawnPoints) >= 3 THEN TRUE ELSE showSmoothingSlider)
    /\ UNCHANGED <<canvasObjects, activeObject, isDrawMode, drawnPoints,
                   smoothingTolerance, previewLineRef>>

\* The smoothing slider (min 1, max 15), rendered with the smoothing controls.
setSmoothingTolerance(value) ==
    /\ isDrawMode /\ showSmoothingSlider
    /\ value # smoothingTolerance
    /\ lastCall' = Call("setSmoothingTolerance", NoPoint)
    /\ smoothingTolerance' = value
    /\ UNCHANGED <<canvasObjects, activeObject, isDrawMode, drawnPoints,
                   showSmoothingSlider, previewLineRef>>

\* The Create Sail button of the smoothing controls.
handleCreateSail ==
    /\ isDrawMode /\ showSmoothingSlider
    /\ IF Len(drawnPoints) >= 3
       THEN createSailFromDrawnPath(drawnPoints, smoothingTolerance,
                                    Call("handleCreateSail", NoPoint))
       ELSE /\ lastCall' = Call("handleCreateSail", NoPoint)
            /\ UNCHANGED <<canvasObjects, activeObject, isDrawMode, drawnPoints,
                           showSmoothingSlider, smoothingTolerance, previewLineRef>>

\* The Cancel button, rendered beside Finish Shape and beside Create Sail.
handleCancelDrawing ==
    /\ isDrawMode /\ (Len(drawnPoints) >= 3 \/ showSmoothingSlider)
    /\ lastCall' = Call("handleCancelDrawing", NoPoint)
    /\ ExitDrawMode(canvasObjects, activeObject)
    /\ UNCHANGED smoothingTolerance

\* addShadeSail with the selectedShape prop equal to shape.  Its button is
\* rendered outside draw mode; the hasSail prop that also hides it is parent
\* state the model leaves free.
addShadeSail(shape) ==
    /\ ~isDrawMode
    /\ IF SailLimitReached(canvasObjects)
       THEN /\ lastCall' = [Call("addShadeSail", NoPoint) EXCEPT !.result = "limit"]
            /\ UNCHANGED <<canvasObjects, activeObject, isDrawMode, drawnPoints,
                           showSmoothingSlider, smoothingTolerance, previewLineRef>>
       ELSE /\ WithinVariety(Append(canvasObjects, PresetSail(shape)), drawnPoints)
            /\ lastCall' = [Call("addShadeSail", NoPoint) EXCEPT !.result = "sail"]
            /\ canvasObjects' = Append(canvasObjects, PresetSail(shape))
            /\ activeObject' = Len(canvasObjects) + 1
            /\ UNCHANGED <<isDrawMode, drawnPoints, showSmoothingSlider,
                           smoothingTolerance, previewLineRef>>

MixedSail(points, curvedEdges) ==
    [kind |-> "sail", sailPoints |-> points,
     curvedEdges |-> Slice(curvedEdges, 0, Min(Len(curvedEdges), Len(points) - 1)),
     sailType |-> "custom", shapeType |-> "none",
     placement |-> InitialPlacement,
     pathData |-> [builder |-> "polygonToMixedPath", curvedEdges |-> curvedEdges]]

createSailWithMixedEdges(points, curvedEdges) ==
    LET result == IF Len(points) < 3 THEN "few"
                  ELSE IF calculatePolygonAreaTwice(points) < MinAreaTwice THEN "small"
                  ELSE IF SailLimitReached(canvasObjects) THEN "limit"
                  ELSE "sail"
    IN  /\ lastCall' = [Call("createSailWithMixedEdges", NoPoint) EXCEPT !.result = result]
        /\ IF result = "sail"
           THEN /\ WithinVariety(Append(canvasObjects, MixedSail(points, curvedEdges)), <<>>)
                /\ UNCHANGED smoothingTolerance
                /\ IF isDrawMode
                   THEN ExitDrawMode(Append(canvasObjects, MixedSail(points, curvedEdges)),
                                     Len(canvasObjects) + 1)
                   ELSE /\ canvasObjects' = Append(canvasObjects, MixedSail(points, curvedEdges))
                        /\ activeObject' = Len(canvasObjects) + 1
                        /\ drawnPoints' = <<>>
                        /\ UNCHANGED <<isDrawMode, showSmoothingSlider, previewLineRef>>
           ELSE UNCHANGED <<canvasObjects, activeObject, isDrawMode, drawnPoints,
                            showSmoothingSlider, smoothingTolerance, previewLineRef>>

\* Mutant: the active object is not looked at.
CurrentSailLatestOnly(objects, active) ==
    IF Len(SailIndices(objects)) = 0 THEN 0
    ELSE SailIndices(objects)[Len(SailIndices(objects))]

\* The sail both edge functions act on: the active object when it is a sail,
\* else the last sail; 0 when the canvas has no sail.
CurrentSail(objects, active) ==
    IF active # 0 /\ IsSail(objects[active]) THEN active
    ELSE IF Len(SailIndices(objects)) = 0 THEN 0
    ELSE SailIndices(objects)[Len(SailIndices(objects))]

\* Mutant: the rebuilt sail is created where fabric places a new path, without
\* the left, top, angle and scale of the sail it replaces.
RebuiltSailNotRestored(sail, newCurvedEdges) ==
    [kind |-> "sail", sailPoints |-> sail.sailPoints,
     curvedEdges |-> newCurvedEdges,
     sailType |-> sail.sailType, shapeType |-> sail.shapeType,
     placement |-> InitialPlacement,
     pathData |-> [builder |-> "polygonToMixedPath", curvedEdges |-> newCurvedEdges]]

RebuiltSail(sail, newCurvedEdges) ==
    [kind |-> "sail", sailPoints |-> sail.sailPoints,
     curvedEdges |-> newCurvedEdges,
     sailType |-> sail.sailType, shapeType |-> sail.shapeType,
     placement |-> sail.placement,
     pathData |-> [builder |-> "polygonToMixedPath", curvedEdges |-> newCurvedEdges]]

modifyExistingSailEdges(newCurvedEdges) ==
    LET currentSail == CurrentSail(canvasObjects, activeObject)
    IN  IF currentSail = 0
        THEN /\ lastCall' = [Call("modifyExistingSailEdges", NoPoint) EXCEPT !.result = "null"]
             /\ UNCHANGED <<canvasObjects, activeObject, isDrawMode, drawnPoints,
                            showSmoothingSlider, smoothingTolerance, previewLineRef>>
        ELSE LET objects == Append(RemoveAt(canvasObjects, currentSail),
                                   RebuiltSail(canvasObjects[currentSail], newCurvedEdges))
             IN  /\ WithinVariety(objects, drawnPoints)
                 /\ lastCall' = [op |-> "modifyExistingSailEdges", point |-> NoPoint,
                                  result |-> "sail", edges |-> newCurvedEdges]
                 /\ canvasObjects' = objects
                 /\ activeObject' = Len(objects)
                 /\ UNCHANGED <<isDrawMode, drawnPoints, showSmoothingSlider,
                                smoothingTolerance, previewLineRef>>

\* handleMouseMove with at least one point captured (it returns at once with
\* none): the preview line is created when previewLineRef holds none, else the
\* line it holds is given new coordinates, on the canvas or not.
handleMouseMove ==
    /\ isDrawMode
    /\ drawnPoints # <<>>
    /\ lastCall' = Call("handleMouseMove", NoPoint)
    /\ IF previewLineRef = "null"
       THEN /\ canvasObjects' = Append(canvasObjects, [kind |-> "preview"])
            /\ previewLineRef' = "onCanvas"
       ELSE UNCHANGED <<canvasObjects, previewLineRef>>
    /\ UNCHANGED <<activeObject, isDrawMode, drawnPoints, showSmoothingSlider,
                   smoothingTolerance>>

\* handleColorChange(color) of the visualiser with a colour other than the
\* selected one: the selectedColor prop changes and the draw-mode effect, which
\* depends on it, runs again.  In draw mode its first branch empties the
\* captured points and the preview line reference and leaves the canvas alone.
handleColorChange ==
    /\ lastCall' = Call("handleColorChange", NoPoint)
    /\ IF isDrawMode
       THEN /\ drawnPoints' = <<>>
            /\ previewLineRef' = "null"
            /\ UNCHANGED <<canvasObjects, activeObject, isDrawMode,
                           showSmoothingSlider, smoothingTolerance>>
       ELSE /\ ExitDrawMode(canvasObjects, activeObject)
            /\ UNCHANGED smoothingTolerance

\* handleZoomIn and handleZoomOut: the zoom of the canvas changes, nothing of
\* the drawing session or of the objects does.
handleZoomIn ==
    /\ lastCall' = Call("handleZoomIn", NoPoint)
    /\ UNCHANGED <<canvasObjects, activeObject, isDrawMode, drawnPoints,
                   showSmoothingSlider, smoothingTolerance, previewLineRef>>

\* getCurrentSailEdges(): "null" when the canvas has no sail.
getCurrentSailEdges(objects, active) ==
    LET currentSail == CurrentSail(objects, active)
    IN  IF currentSail = 0 THEN [found |-> FALSE]
        ELSE [found |-> TRUE,
              curvedEdges |-> objects[currentSail].curvedEdges,
              sailType |-> objects[currentSail].sailType,
              shapeType |-> objects[currentSail].shapeType,
              pointCount |-> Len(objects[currentSail].sailPoints)]

\* toggleEdge(edgeIndex) of the edge controls, on the profile they read with
\* getCurrentSailEdges; the buttons are rendered for the indices of that profile.
toggleEdge(edgeIndex) ==
    LET info == getCurrentSailEdges(canvasObjects, activeObject)
    IN  /\ info.found
        /\ edgeIndex < Len(info.curvedEdges)
        /\ modifyExistingSailEdges(
              [info.curvedEdges EXCEPT ![edgeIndex + 1] = ~info.curvedEdges[edgeIndex + 1]])

\* The user moves, rotates or scales the selected sail with the canvas
\* controls (or the rotation slider): the object takes the given placement.
transformObject(placement) ==
    /\ ~isDrawMode
    /\ activeObject # 0
    /\ IF activeObject = 0 THEN FALSE ELSE IsSail(canvasObjects[activeObject])
    /\ canvasObjects[activeObject].placement # placement
    /\ WithinVariety([canvasObjects EXCEPT ![activeObject].placement = placement],
                     drawnPoints)
    /\ lastCall' = Call("transformObject", NoPoint)
    /\ canvasObjects' = [canvasObjects EXCEPT ![activeObject].placement = placement]
    /\ UNCHANGED <<activeObject, isDrawMode, drawnPoints, showSmoothingSlider,
                   smoothingTolerance, previewLineRef>>

\* resetCanvas: canvas.clear() drops every object and the selection; the
\* preview line reference is kept, its line is no longer on the canvas.
resetCanvas ==
    /\ lastCall' = Call("resetCanvas", NoPoint)
    /\ canvasObjects' = <<>>
    /\ activeObject' = 0
    /\ previewLineRef' = (IF previewLineRef = "null" THEN "null" ELSE "removed")
    /\ UNCHANGED <<isDrawMode, drawnPoints, showSmoothingSlider, smoothingTolerance>>

\* The user selects sail i, or clears the selection (i = 0), outside draw
\* mode (in draw mode a click is handleMouseDown's); temporary objects are
\* created selectable: false.
selectObject(i) ==
    /\ ~isDrawMode
    /\ i <= Len(canvasObjects)
    /\ IF i = 0 THEN TRUE ELSE IsSail(canvasObjects[i])
    /\ i # activeObject
    /\ lastCall' = Call("selectObject", NoPoint)
    /\ activeObject' = i
    /\ UNCHANGED <<canvasObjects, isDrawMode, drawnPoints, showSmoothingSlider,
                   smoothingTolerance, previewLineRef>>

----------------------------------------------------------------------------
(* Harness for simplifyPath *)

MaxPathLen == 4

SimplifyGrid == {Pt(gx, gy) : gx \in {0, 2, 4}, gy \in {0, 1, 3}}

Tolerances == 0..3

PathsUpTo(S, n) == UNION {[1..k -> S] : k \in 0..n}

SimplifyIdle ==
    /\ sPhase = "off"
    /\ sPoints = <<>>
    /\ sTol1 = 0
    /\ sTol2 = 0
    /\ sOut1 = <<>>
    /\ sOut2 = <<>>
    /\ sAgain = <<>>
    /\ sStack = <<>>

PathIdle ==
    /\ pPhase = "off"
    /\ pPoly = <<>>
    /\ pFlags = <<>>
    /\ pSag = [num |-> 0, den |-> 1]
    /\ pMixed = <<>>
    /\ pCurved = <<>>

PerspIdle ==
    /\ tPhase = "off"
    /\ tBounds = [left |-> 0, top |-> 0, width |-> 0, height |-> 0]
    /\ tPreset = "none"
    /\ tCorners = <<>>
    /\ tObject = [set |-> FALSE]
    /\ tAnchors = <<>>
    /\ tOriginal = <<>>
    /\ tRefreshes = 0
    /\ tApplied = 0

\* No manager: the postManager state is null.
NoPostManager == [canvas |-> 0, posts |-> {}, nextId |-> 1]

\* The application before the first upload.
AppIdle ==
    /\ uploadedImage = FALSE
    /\ canvas = 0
    /\ postManager = NoPostManager
    /\ fabricCanvases = <<>>
    /\ fabricCanvasRef = 0

CanvasInit ==
    /\ canvasObjects = <<>>
    /\ activeObject = 0
    /\ isDrawMode = FALSE
    /\ drawnPoints = <<>>
    /\ showSmoothingSlider = FALSE
    /\ smoothingTolerance = InitialSmoothingTolerance
    /\ previewLineRef = "null"
    /\ lastCall = Call("none", NoPoint)

SimplifyInit ==
    /\ PathIdle
    /\ PerspIdle
    /\ AppIdle
    /\ CanvasInit
    /\ sPhase = "in"
    /\ sPoints \in PathsUpTo(SimplifyGrid, MaxPathLen)
    /\ sTol1 \in Tolerances
    /\ sTol2 \in Tolerances
    /\ sTol1 < sTol2
    /\ sOut1 = <<>>
    /\ sOut2 = <<>>
    /\ sAgain = <<>>
    /\ sStack = <<>>

ApplySimplify ==
    /\ sPhase = "in"
    /\ sPhase' = "out"
    /\ sOut1' = simplifyPath(sPoints, sTol1)
    /\ sOut2' = simplifyPath(sPoints, sTol2)
    /\ sAgain' = simplifyPath(simplifyPath(sPoints, sTol1), sTol1)
    /\ UNCHANGED <<sPoints, sTol1, sTol2, sStack>>
    /\ UNCHANGED <<pathVars, canvasVars, perspVars, appVars>>

SpecSimplify == SimplifyInit /\ [][ApplySimplify]_vars

RECURSIVE IsSubsequence(_, _)
IsSubsequence(a, b) ==
    IF a = <<>> THEN TRUE
    ELSE IF b = <<>> THEN FALSE
    ELSE IF Head(a) = Head(b) THEN IsSubsequence(Tail(a), Tail(b))
    ELSE IsSubsequence(a, Tail(b))

\* C1: simplification monotonicity - for a path of at least 2 points and
\* tolerances 0 <= t1 < t2, simplifyPath(P, t1) has at least as many points
\* as simplifyPath(P, t2).
C1_Monotone ==
    (sPhase = "out" /\ Len(sPoints) >= 2) => Len(sOut1) >= Len(sOut2)

\* The smaller tolerance keeps strictly more points, and the larger one
\* still keeps an interior point.
C1_Witness ==
    /\ sPhase = "out"
    /\ Len(sOut1) > Len(sOut2)
    /\ Len(sOut2) >= 3

\* C2: simplification idempotence - simplifying the simplified path again
\* with the same tolerance gives the same point sequence.
C2_Idempotent ==
    sPhase = "out" => sAgain = sOut1

\* A path that lost some interior points and kept others is a fixpoint.
C2_Witness ==
    /\ sPhase = "out"
    /\ Len(sOut1) >= 3
    /\ Len(sOut1) < Len(sPoints)
    /\ sAgain = sOut1

SubsequenceWithEnds(out, path) ==
    /\ IsSubsequence(out, path)
    /\ Len(out) >= 2
    /\ out[1] = path[1]
    /\ out[Len(out)] = path[Len(path)]

\* C3: for a path of at least 2 points the result is a subsequence of the
\* input that starts with the input's first point and ends with its last
\* point; a path of 2 points or fewer is returned unchanged.
C3_SubsequenceEndpoints ==
    sPhase = "out" =>
        /\ Len(sPoints) >= 2 =>
              /\ SubsequenceWithEnds(sOut1, sPoints)
              /\ SubsequenceWithEnds(sOut2, sPoints)
        /\ Len(sPoints) <= 2 => (sOut1 = sPoints /\ sOut2 = sPoints)

\* A proper subsequence with a kept interior point.
C3_Witness ==
    /\ sPhase = "out"
    /\ Len(sOut2) >= 3
    /\ Len(sOut2) < Len(sPoints)
    /\ SubsequenceWithEnds(sOut2, sPoints)

----------------------------------------------------------------------------
(* simplifyPath call by call *)

\* Mutant: the right part is the whole sequence again.
SplitPartsWhole(points, maxIndex) ==
    <<Slice(points, 0, maxIndex + 1), Slice(points, 0, Len(points))>>

\* The arguments of the two recursive calls: points.slice(0, maxIndex + 1)
\* and points.slice(maxIndex).
SplitParts(points, maxIndex) ==
    <<Slice(points, 0, maxIndex + 1), Slice(points, maxIndex, Len(points))>>

\* The result so far with the result of the next call joined to it: the
\* leftmost result whole, every later one without its first point.
Joined(out, part) == IF out = <<>> THEN part ELSE out \o Tail1(part)

\* A call with 2 points or fewer returns its argument.
CallReturnsInput ==
    /\ sPhase = "run" /\ sStack # <<>>
    /\ Len(Head(sStack)) <= 2
    /\ sOut1' = Joined(sOut1, Head(sStack))
    /\ sStack' = Tail(sStack)
    /\ sPhase' = (IF Tail(sStack) = <<>> THEN "out" ELSE "run")
    /\ UNCHANGED <<sPoints, sTol1, sTol2, sOut2, sAgain>>
    /\ UNCHANGED <<pathVars, canvasVars, perspVars, appVars>>

\* A call in which no interior point exceeds the tolerance returns the ends.
CallCollapses ==
    /\ sPhase = "run" /\ sStack # <<>>
    /\ Len(Head(sStack)) > 2
    /\ LET points == Head(sStack)
           m == MaxScan(points, 1, Frac(0, 1), 0)
       IN  /\ ~ExceedsTolerance(m.maxDistance, sTol1)
           /\ sOut1' = Joined(sOut1, <<points[1], points[Len(points)]>>)
    /\ sStack' = Tail(sStack)
    /\ sPhase' = (IF Tail(sStack) = <<>> THEN "out" ELSE "run")
    /\ UNCHANGED <<sPoints, sTol1, sTol2, sOut2, sAgain>>
    /\ UNCHANGED <<pathVars, canvasVars, perspVars, appVars>>

\* A call that recurses: the left call is made next, the right one after it.
CallSplits ==
    /\ sPhase = "run" /\ sStack # <<>>
    /\ Len(Head(sStack)) > 2
    /\ LET points == Head(sStack)
           m == MaxScan(points, 1, Frac(0, 1), 0)
       IN  /\ ExceedsTolerance(m.maxDistance, sTol1)
           /\ sStack' = SplitParts(points, m.maxIndex) \o Tail(sStack)
    /\ UNCHANGED <<sPhase, sPoints, sTol1, sTol2, sOut1, sOut2, sAgain>>
    /\ UNCHANGED <<pathVars, canvasVars, perspVars, appVars>>

\* The longest sequence handed to the first call.
MaxCallLen == 4

CallGrid == {Pt(0, 0), Pt(4, 0), Pt(0, 3), Pt(4, 3), Pt(2, 1)}

CallTolerances == 0..2

CallsInit ==
    /\ PathIdle
    /\ PerspIdle
    /\ AppIdle
    /\ CanvasInit
    /\ sPhase = "run"
    /\ sPoints \in PathsUpTo(CallGrid, MaxCallLen)
    /\ sTol1 \in CallTolerances
    /\ sTol2 = 0
    /\ sOut1 = <<>>
    /\ sOut2 = <<>>
    /\ sAgain = <<>>
    /\ sStack = <<sPoints>>

NextCalls ==
    \/ CallReturnsInput
    \/ CallCollapses
    \/ CallSplits

\* A call that has begun runs to its end: the code is synchronous.
SpecCalls == CallsInit /\ [][NextCalls]_vars /\ WF_vars(NextCalls)

\* C26: simplifyPath terminates for every finite point sequence and every
\* tolerance >= 0: whenever it recurses, the split index is strictly between
\* the first and the last index, so both recursive calls receive strictly
\* shorter sequences of length >= 2; the calls end with the result of
\* simplifyPath.
C26_Terminates ==
    /\ [][Len(sStack') > Len(sStack) =>
            LET points == Head(sStack)
            IN  \E k \in 1..(Len(points) - 2) :
                   /\ sStack'[1] = SubSeq(points, 1, k + 1)
                   /\ sStack'[2] = SubSeq(points, k + 1, Len(points))
                   /\ Len(sStack'[1]) >= 2 /\ Len(sStack'[1]) < Len(points)
                   /\ Len(sStack'[2]) >= 2 /\ Len(sStack'[2]) < Len(points)]_vars
    /\ <>(sPhase = "out" /\ sStack = <<>>)
    /\ [](sPhase = "out" => sOut1 = simplifyPath(sPoints, sTol1))

\* The calls for a path of 4 points have ended after two nested splits, with
\* every point kept.
C26_Witness ==
    /\ sPhase = "out"
    /\ sStack = <<>>
    /\ Len(sPoints) = 4
    /\ sOut1 = sPoints
    /\ sTol1 = 2

\* The points of a path as distinct objects: each carries its 0-based index.
Tagged(path) == [k \in 1..Len(path) |-> [x |-> path[k].x, y |-> path[k].y, id |-> k - 1]]

Untagged(path) == [k \in 1..Len(path) |-> Pt(path[k].x, path[k].y)]

\* Squared distance of the interior point with 0-based index i from the
\* segment from the first to the last point of path.
InteriorDistanceSq(path, i) ==
    perpendicularDistanceSq(path[i + 1], path[1], path[Len(path)])

InteriorIndices(path) == 1..(Len(path) - 2)

IsFartherThan(dSq, tolerance) == dSq.num > tolerance * tolerance * dSq.den

\* The earliest interior index of maximum distance.
EarliestFarthest(path) ==
    CHOOSE i \in InteriorIndices(path) :
        /\ \A j \in InteriorIndices(path) :
              ~FracGreater(InteriorDistanceSq(path, j), InteriorDistanceSq(path, i))
        /\ \A j \in InteriorIndices(path) :
              j < i => FracGreater(InteriorDistanceSq(path, i), InteriorDistanceSq(path, j))

\* What C21 says of one call simplifyPath(path, tolerance) that returned out.
SplitOrCollapse(path, tolerance, out) ==
    LET noneFarther == \A i \in InteriorIndices(path) :
                          ~IsFartherThan(InteriorDistanceSq(path, i), tolerance)
    IN  /\ (out = <<path[1], path[Len(path)]>>) <=> noneFarther
        /\ ~noneFarther =>
              LET m == EarliestFarthest(path)
                  kept == simplifyPath(Tagged(path), tolerance)
              IN  /\ Untagged(kept) = out
                  /\ Cardinality({k \in 1..Len(kept) : kept[k].id = m}) = 1
                  /\ out = simplifyPath(SubSeq(path, 1, m + 1), tolerance)
                           \o Tail(simplifyPath(SubSeq(path, m + 1, Len(path)), tolerance))

\* C21: for a sequence of 3 or more points, simplifyPath returns exactly
\* [first, last] if and only if no interior point lies farther than tolerance
\* from the segment first-last (a distance equal to tolerance collapses);
\* otherwise the interior point of maximum distance (the earliest on ties) is
\* kept, appears exactly once in the result, and the result is the
\* simplification of the part up to it followed by the simplification of the
\* part from it.
C21_SplitOrCollapse ==
    (sPhase = "out" /\ Len(sPoints) >= 3) =>
        /\ SplitOrCollapse(sPoints, sTol1, sOut1)
        /\ SplitOrCollapse(sPoints, sTol2, sOut2)

\* Two different interior points tie at distance 1: with tolerance 1 the
\* path collapses to its ends, with tolerance 0 the earlier of the two is the
\* split point.
C21_Witness ==
    /\ sPhase = "out"
    /\ Len(sPoints) = 4
    /\ sTol1 = 0 /\ sTol2 = 1
    /\ InteriorDistanceSq(sPoints, 1) = Frac(1, 1)
    /\ InteriorDistanceSq(sPoints, 2) = Frac(1, 1)
    /\ sPoints[2] # sPoints[3]
    /\ sOut2 = <<sPoints[1], sPoints[4]>>
    /\ EarliestFarthest(sPoints) = 1
    /\ sOut1[2] = sPoints[2]

----------------------------------------------------------------------------
(* Harness for the curved-path builder *)

MaxPolyLen == 4

PathGrid == {Pt(0, 0), Pt(4, 0), Pt(0, 4), Pt(2, 1)}

\* The square of the concrete scenario.
Square100 == <<Pt(0, 0), Pt(100, 0), Pt(100, 100), Pt(0, 100)>>

Reverse(s) == [i \in 1..Len(s) |-> s[Len(s) + 1 - i]]

\* 0.05 at every call site, 0.08 the default of polygonToCurvedPath
SagRatios == {[num |-> 1, den |-> 20], [num |-> 2, den |-> 25]}

\* Four clicks of a drawing session, and the polygon createSailFromDrawnPath
\* stores for them on a closing click (the closing point appended).
KiteClicks == <<Pt(0, 0), Pt(100, 0), Pt(120, -50), Pt(140, 50)>>

DrawnKite == DrawnOutcome(KiteClicks, CloseTolerance, <<>>).points

\* The polygons of sails the workspace creates: the presets and drawn ones.
SailPolygons ==
    {getShapePoints(sh) : sh \in Shapes}
    \cup {Reverse(getShapePoints(sh)) : sh \in Shapes}
    \cup {DrawnKite, Reverse(DrawnKite)}

Polygons ==
    UNION {[1..k -> PathGrid] : k \in 3..MaxPolyLen}
    \cup {Square100, Reverse(Square100)}
    \cup SailPolygons

\* One flag per point, or one fewer (the profile stored on a drawn sail).
ProfilesFor(poly) == [1..Len(poly) -> BOOLEAN] \cup [1..(Len(poly) - 1) -> BOOLEAN]

PathInit ==
    /\ SimplifyIdle
    /\ PerspIdle
    /\ AppIdle
    /\ CanvasInit
    /\ pPhase = "in"
    /\ pPoly \in Polygons
    /\ pFlags \in ProfilesFor(pPoly)
    /\ pSag \in SagRatios
    /\ pMixed = <<>>
    /\ pCurved = <<>>

ApplyBuildPath ==
    /\ pPhase = "in"
    /\ pPhase' = "out"
    /\ pMixed' = polygonToMixedPath(pPoly, pFlags, pSag)
    /\ pCurved' = polygonToCurvedPath(pPoly, pSag)
    /\ UNCHANGED <<pPoly, pFlags, pSag>>
    /\ UNCHANGED <<simplifyVars, canvasVars, perspVars, appVars>>

SpecPath == PathInit /\ [][ApplyBuildPath]_vars

\* The 0-based indices of the edges of length >= 1, in order.
LongEdges(poly) ==
    SelectSeq([k \in 1..Len(poly) |-> k - 1],
              LAMBDA i : LET a == poly[i + 1]
                             b == poly[((i + 1) % Len(poly)) + 1]
                         IN  (b.x - a.x) * (b.x - a.x) + (b.y - a.y) * (b.y - a.y) >= 1)

EdgeStart(poly, i) == poly[i + 1]

EdgeEnd(poly, i) == poly[((i + 1) % Len(poly)) + 1]

\* path is M, one command per long edge, Z; each command ends at its edge's end.
OneCommandPerLongEdge(path, poly) ==
    /\ Len(path) = Len(LongEdges(poly)) + 2
    /\ path[1] = [op |-> "M", x |-> poly[1].x, y |-> poly[1].y]
    /\ path[Len(path)] = [op |-> "Z"]
    /\ \A k \in 1..Len(LongEdges(poly)) :
          /\ path[k + 1].op \in {"L", "Q"}
          /\ path[k + 1].x = EdgeEnd(poly, LongEdges(poly)[k]).x
          /\ path[k + 1].y = EdgeEnd(poly, LongEdges(poly)[k]).y

\* C4: for a polygon of n >= 3 vertices polygonToMixedPath emits one move
\* to vertex 0, then in edge order one command per edge of length >= 1 ending
\* at vertex (i+1) mod n - a line when flag i is false, a quadratic curve when
\* it is true - then one close; with all flags false the path is the straight
\* closed polyline; an edge shorter than 1 emits nothing.
C4_MixedPathCommands ==
    pPhase = "out" =>
        /\ OneCommandPerLongEdge(pMixed, pPoly)
        /\ \A k \in 1..Len(LongEdges(pPoly)) :
              LET i == LongEdges(pPoly)[k]
              IN  i + 1 <= Len(pFlags) =>
                     pMixed[k + 1].op = (IF pFlags[i + 1] THEN "Q" ELSE "L")
        /\ (\A j \in 1..Len(pFlags) : ~pFlags[j]) =>
              \A k \in 2..(Len(pMixed) - 1) : pMixed[k].op = "L"

\* A path with a skipped short edge, a straight edge and a curved edge.
C4_Witness ==
    /\ pPhase = "out"
    /\ Len(pFlags) = Len(pPoly)
    /\ Len(pMixed) < Len(pPoly) + 2
    /\ \E k \in 1..Len(pMixed) : pMixed[k].op = "L"
    /\ \E k \in 1..Len(pMixed) : pMixed[k].op = "Q"

\* Sign of the side of the chord a -> b on which the control point of the
\* command lies (cross product of the edge with control - a, times den > 0).
ControlSide(cmd, a, b) ==
    (b.x - a.x) * (cmd.cy - a.y * cmd.den) - (b.y - a.y) * (cmd.cx - a.x * cmd.den)

\* Sign of the side of the chord a -> b on which the centroid of poly lies
\* (cross product of the edge with centroid - a, times Len(poly) > 0).
CentroidSide(poly, a, b) ==
    (b.x - a.x) * (SumY(poly) - Len(poly) * a.y)
    - (b.y - a.y) * (SumX(poly) - Len(poly) * a.x)

Sign(n) == IF n > 0 THEN 1 ELSE IF n < 0 THEN -1 ELSE 0

SameSide(m, n) == Sign(m) # 0 /\ Sign(m) = Sign(n)

\* The curved commands of path, each with the ends of its edge.
CurvedEdgeSet(path, poly) ==
    {[cmd |-> path[k + 1],
      a |-> EdgeStart(poly, LongEdges(poly)[k]),
      b |-> EdgeEnd(poly, LongEdges(poly)[k])] :
        k \in {j \in 1..Len(LongEdges(poly)) : path[j + 1].op = "Q"}}

AllCurvedEdges == CurvedEdgeSet(pMixed, pPoly) \cup CurvedEdgeSet(pCurved, pPoly)

OffsetX(e) == e.cmd.cx - (e.a.x + e.b.x) * (e.cmd.den \div 2)

OffsetY(e) == e.cmd.cy - (e.a.y + e.b.y) * (e.cmd.den \div 2)

EdgeLenSq(e) == (e.b.x - e.a.x) * (e.b.x - e.a.x) + (e.b.y - e.a.y) * (e.b.y - e.a.y)

\* C6: the control point of a curved edge of length L is the chord midpoint
\* displaced perpendicularly to the edge by 2 * sagRatio * L; for the square
\* (0,0),(100,0),(100,100),(0,100), all edges curved, sagRatio 0.08, there are
\* exactly four quadratic commands, each control point 16 units from its edge
\* midpoint and strictly inside the square.
C6_ControlPointOffset ==
    pPhase = "out" =>
        /\ \A e \in AllCurvedEdges :
              /\ e.cmd.den = 2 * pSag.den
              /\ OffsetX(e) * (e.b.x - e.a.x) + OffsetY(e) * (e.b.y - e.a.y) = 0
              /\ OffsetX(e) * OffsetX(e) + OffsetY(e) * OffsetY(e)
                   = 16 * pSag.num * pSag.num * EdgeLenSq(e)
        /\ (pPoly = Square100 /\ pSag = [num |-> 2, den |-> 25]) =>
              /\ Len(pCurved) = 6
              /\ \A k \in 2..5 : pCurved[k].op = "Q"
              /\ \A e \in CurvedEdgeSet(pCurved, pPoly) :
                    /\ OffsetX(e) * OffsetX(e) + OffsetY(e) * OffsetY(e)
                         = (16 * e.cmd.den) * (16 * e.cmd.den)
                    /\ 0 < e.cmd.cx /\ e.cmd.cx < 100 * e.cmd.den
                    /\ 0 < e.cmd.cy /\ e.cmd.cy < 100 * e.cmd.den
              /\ (Len(pFlags) = 4 /\ \A j \in 1..4 : pFlags[j]) => pMixed = pCurved

\* The concrete square scenario has been built.
C6_Witness ==
    /\ pPhase = "out"
    /\ pPoly = Square100
    /\ pSag = [num |-> 2, den |-> 25]
    /\ Cardinality(CurvedEdgeSet(pCurved, pPoly)) = 4
    /\ Len(pFlags) = 4 /\ \A j \in 1..4 : pFlags[j]

----------------------------------------------------------------------------
(* The canvas workspace *)

\* The points the pointer clicks in the canvas specification.
DrawGrid == {Pt(0, 0), Pt(100, 0), Pt(100, 100)}

\* A drawing session stores at most MaxDrawnPoints points (a closing click
\* stores none).
MaxDrawnPoints == 3

SessionHasRoom(point, cap) ==
    IsClosingClick(drawnPoints, point) \/ Len(drawnPoints) < cap

\* Slider positions tried: the upper end of its range.
SliderValues == {15}

AllFalse(n) == [k \in 1..n |-> FALSE]

\* The profiles passed to modifyExistingSailEdges for a sail of n points.
EdgeProfiles(n) == {AllTrue(n), AllFalse(n), [k \in 1..n |-> k = 1], AllTrue(n - 1)}

\* The (points, curvedEdges) pairs passed to createSailWithMixedEdges.
MixedInputs ==
    {<<Square100, AllFalse(4)>>, <<Square100, [k \in 1..4 |-> k = 2]>>,
     <<<<Pt(0, 0), Pt(9, 12), Pt(100, 0)>>, AllTrue(3)>>,
     <<<<Pt(0, 0), Pt(9, 12), Pt(0, 0)>>, AllTrue(3)>>}

Init ==
    /\ SimplifyIdle
    /\ PathIdle
    /\ PerspIdle
    /\ AppIdle
    /\ CanvasInit

Next ==
    \/ /\ ToggleDrawMode
       /\ UNCHANGED harnessVars
    \/ /\ \E point \in DrawGrid :
             /\ SessionHasRoom(point, MaxDrawnPoints)
             /\ handleMouseDown(point)
       /\ UNCHANGED harnessVars
    \/ /\ handleFinishDrawing
       /\ UNCHANGED harnessVars
    \/ /\ \E value \in SliderValues : setSmoothingTolerance(value)
       /\ UNCHANGED harnessVars
    \/ /\ handleCreateSail
       /\ UNCHANGED harnessVars
    \/ /\ handleCancelDrawing
       /\ UNCHANGED harnessVars
    \/ /\ \E shape \in Shapes : addShadeSail(shape)
       /\ UNCHANGED harnessVars
    \/ /\ \E input \in MixedInputs : createSailWithMixedEdges(input[1], input[2])
       /\ UNCHANGED harnessVars
    \/ /\ \E n \in 3..5 : \E profile \in EdgeProfiles(n) : modifyExistingSailEdges(profile)
       /\ UNCHANGED harnessVars
    \/ /\ resetCanvas
       /\ UNCHANGED harnessVars
    \/ /\ \E i \in {0, 1, Len(canvasObjects)} : selectObject(i)
       /\ UNCHANGED harnessVars

Spec == Init /\ [][Next]_vars

\* The operations that try to create a sail, as lastCall records them.
IsCreationAttempt(call) ==
    \/ call.op \in {"addShadeSail", "createSailWithMixedEdges"}
    \/ /\ call.op \in {"handleMouseDown", "handleCreateSail"}
       /\ call.result \in {"few", "small", "limit", "sail"}

\* C10: in every reachable state the canvas holds at most 10 sails, whatever
\* the sequence of addShadeSail, createSailFromDrawnPath,
\* createSailWithMixedEdges, modifyExistingSailEdges and resetCanvas; a creation
\* attempted while 10 sails exist is rejected and leaves the existing sails,
\* their polygons and their curve profiles unchanged.
C10_SailLimit ==
    /\ [](Len(Sails(canvasObjects)) <= 10)
    /\ [][(Len(Sails(canvasObjects)) = 10 /\ IsCreationAttempt(lastCall'))
             => /\ lastCall'.result # "sail"
                /\ Sails(canvasObjects') = Sails(canvasObjects)]_vars

\* Ten sails exist and a drawn polygon that passed every other test has just
\* been rejected.
C10_Witness ==
    /\ Len(Sails(canvasObjects)) = 10
    /\ lastCall.op = "handleMouseDown"
    /\ lastCall.result = "limit"

----------------------------------------------------------------------------
(* Freehand capture *)

CaptureGrid == {Pt(0, 0), Pt(50, -20), Pt(100, 0), Pt(50, 80), Pt(9, 12), Pt(30, -30)}

MaxCapturedPoints == 5

NextCapture ==
    \/ /\ ToggleDrawMode
       /\ UNCHANGED harnessVars
    \/ /\ \E point \in CaptureGrid :
             /\ SessionHasRoom(point, MaxCapturedPoints)
             /\ handleMouseDown(point)
       /\ UNCHANGED harnessVars
    \/ /\ handleCancelDrawing
       /\ UNCHANGED harnessVars
    \/ /\ resetCanvas
       /\ UNCHANGED harnessVars

SpecCapture == Init /\ [][NextCapture]_vars

\* The concrete scenario of the capture claims.
ScenarioPoints == <<Pt(0, 0), Pt(50, -20), Pt(100, 0), Pt(50, 80)>>

IsPrefix(a, b) == Len(a) <= Len(b) /\ a = SubSeq(b, 1, Len(a))

Cross(ax, ay, bx, by) == ax * by - ay * bx

\* segmentsIntersect as the specification text states it: the parameters t and
\* u of the crossing point both lie in [0, 1] and the segments are not parallel.
segmentsIntersect(a0, a1, b0, b1) ==
    LET denominator == Cross(a1.x - a0.x, a1.y - a0.y, b1.x - b0.x, b1.y - b0.y)
        tNum == Cross(b0.x - a0.x, b0.y - a0.y, b1.x - b0.x, b1.y - b0.y)
        uNum == Cross(b0.x - a0.x, b0.y - a0.y, a1.x - a0.x, a1.y - a0.y)
    IN  /\ denominator # 0
        /\ IF denominator > 0
           THEN 0 <= tNum /\ tNum <= denominator /\ 0 <= uNum /\ uNum <= denominator
           ELSE 0 >= tNum /\ tNum >= denominator /\ 0 >= uNum /\ uNum >= denominator

\* wouldAutoClose as the specification text states it: at least 3 points
\* captured and the segment from the last of them to the candidate intersects
\* an earlier edge other than the one immediately preceding it.
wouldAutoClose(candidate, history) ==
    /\ Len(history) >= 3
    /\ \E i \in 1..(Len(history) - 2) :
          segmentsIntersect(history[Len(history)], candidate, history[i], history[i + 1])

\* A step of handleMouseDown: every other operation leaves another name in lastCall.
IsMouseDownStep == lastCall'.op = "handleMouseDown"

----------------------------------------------------------------------------
(* Sail creation from long drawn paths *)

\* Sixteen points round a circle of radius 60.
Ring16 ==
    <<Pt(60, 0), Pt(55, 23), Pt(42, 42), Pt(23, 55), Pt(0, 60), Pt(-23, 55),
      Pt(-42, 42), Pt(-55, 23), Pt(-60, 0), Pt(-55, -23), Pt(-42, -42),
      Pt(-23, -55), Pt(0, -60), Pt(23, -55), Pt(42, -42), Pt(55, -23)>>

\* A flat zigzag of n points: 10 apart, every second one 2 above the others.
Zigzag(n) == [k \in 1..n |-> Pt(10 * (k - 1), 2 * ((k - 1) % 2))]

\* The longest path a creation session has captured.
MaxCreatePoints == 14

\* The paths captured before a creation is attempted: arcs of the ring,
\* zigzags, three collinear points, a triangle of area 200.
CreatePaths ==
    {SubSeq(Ring16, 1, n) : n \in 3..Min(MaxCreatePoints, 16)}
    \cup {Zigzag(n) : n \in 3..MaxCreatePoints}
    \cup {<<Pt(0, 0), Pt(10, 0), Pt(20, 0)>>, <<Pt(0, 0), Pt(20, 0), Pt(20, 20)>>}

\* The temporary objects handleMouseDown has put on the canvas for n clicks.
RECURSIVE SessionMarkers(_)
SessionMarkers(n) ==
    IF n = 0 THEN <<>>
    ELSE SessionMarkers(n - 1)
         \o (IF n > 1 THEN <<[kind |-> "line"]>> ELSE <<>>)
         \o <<[kind |-> "circle"]>>

\* The numbers of sails on the canvas when the session started.
CreateSailCounts == {0, 9, 10}

\* A drawing session that has captured one of CreatePaths, on a canvas of
\* preset sails added before draw mode was entered.
CreateInit ==
    /\ SimplifyIdle
    /\ PathIdle
    /\ PerspIdle
    /\ AppIdle
    /\ \E path \in CreatePaths : \E count \in CreateSailCounts :
          /\ drawnPoints = path
          /\ canvasObjects = [k \in 1..count |-> PresetSail("triangle")]
                             \o SessionMarkers(Len(path))
    /\ activeObject = 0
    /\ isDrawMode = TRUE
    /\ showSmoothingSlider = FALSE
    /\ smoothingTolerance = InitialSmoothingTolerance
    /\ previewLineRef = "null"
    /\ lastCall = [Call("handleMouseDown", drawnPoints[Len(drawnPoints)])
                     EXCEPT !.result = "appended"]

\* The slider's range.
SliderRange == 1..15

NextCreate ==
    \/ /\ isDrawMode /\ drawnPoints # <<>>
       /\ handleMouseDown(drawnPoints[1])
       /\ UNCHANGED harnessVars
    \/ /\ handleFinishDrawing
       /\ UNCHANGED harnessVars
    \/ /\ \E value \in SliderRange : setSmoothingTolerance(value)
       /\ UNCHANGED harnessVars
    \/ /\ handleCreateSail
       /\ UNCHANGED harnessVars
    \/ /\ handleCancelDrawing
       /\ UNCHANGED harnessVars

SpecCreate == CreateInit /\ [][NextCreate]_vars

\* A step in which createSailFromDrawnPath ran, and the tolerance it was given.
IsCreateFromPathStep ==
    /\ lastCall'.op \in {"handleMouseDown", "handleCreateSail"}
    /\ lastCall'.result \in {"few", "small", "limit", "sail"}

ToleranceOfStep == IF lastCall'.op = "handleMouseDown" THEN 5 ELSE smoothingTolerance

\* The geometry of points is insufficient at tolerance: fewer than 3 points
\* after the first simplification, or after the one with doubled tolerance, or
\* the closed polygon encloses less than 500.
InsufficientGeometry(points, tolerance) ==
    LET first == simplifyPath(points, tolerance)
        second == simplifyPath(points, tolerance * 2)
        simplified == IF Len(first) > 12 THEN second ELSE first
        last == simplified[Len(simplified)]
        closed == IF DistanceSq(last, simplified[1]) > tolerance * tolerance
                  THEN Append(simplified, simplified[1])
                  ELSE simplified
    IN  \/ Len(first) < 3
        \/ Len(first) > 12 /\ Len(second) < 3
        \/ Abs(ShoelaceSum(closed, 0)) < 2 * 500
        \/ Len(closed) < 3

\* C11: whenever createSailFromDrawnPath is invoked and the simplified path
\* (after the first simplification or after the one with doubled tolerance)
\* has fewer than 3 points, or the closed polygon's area is below 500, no sail
\* is added to the canvas, the captured points are left unchanged and draw
\* mode is not exited.
C11_InsufficientGeometry ==
    [][(IsCreateFromPathStep /\ InsufficientGeometry(drawnPoints, ToleranceOfStep))
         => /\ lastCall'.result \in {"few", "small"}
            /\ canvasObjects' = canvasObjects
            /\ drawnPoints' = drawnPoints
            /\ isDrawMode' /\ isDrawMode]_vars

\* Create Sail has just been refused for a path that kept more than 12 points
\* at the slider's tolerance and only 2 at twice that tolerance.
C11_Witness ==
    /\ lastCall.op = "handleCreateSail"
    /\ lastCall.result = "small"
    /\ isDrawMode
    /\ Len(drawnPoints) > 12
    /\ Len(simplifyPath(drawnPoints, smoothingTolerance)) > 12
    /\ Len(simplifyPath(drawnPoints, 2 * smoothingTolerance)) = 2

\* The simplified points of a drawn sail: its stored points without the
\* closing copy of the first point.
SimplifiedCount(sail) ==
    IF sail.sailPoints[Len(sail.sailPoints)] = sail.sailPoints[1]
    THEN Len(sail.sailPoints) - 1
    ELSE Len(sail.sailPoints)

\* C20: every sail created by createSailFromDrawnPath, for any number of
\* captured points and any tolerance in 1..15, has at most 12 simplified
\* points (not counting the appended closing point).
C20_AtMostTwelvePoints ==
    \A k \in 1..Len(canvasObjects) :
        (IsSail(canvasObjects[k]) /\ canvasObjects[k].sailType = "drawn")
            => SimplifiedCount(canvasObjects[k]) <= 12

----------------------------------------------------------------------------
(* Curve profiles of the sails on the canvas *)

\* The points the pointer clicks in the curve-profile specifications.
EdgeGrid == {Pt(0, 0), Pt(100, 0), Pt(100, 100), Pt(0, 12)}

\* The sails the canvas holds at most in the curve-profile specifications.
MaxEdgeSails == 2

\* The points a drawing session stores at most in these specifications.
MaxEdgePoints == 3

\* Where the user leaves a sail: untouched, or moved, rotated and widened.
Placements ==
    {InitialPlacement,
     [left |-> 40, top |-> -10, angle |-> 30, scaleX |-> 2, scaleY |-> 1]}

HasRoomForSail == Len(Sails(canvasObjects)) < MaxEdgeSails

\* Preset sails, drawn sails, and the edge controls.
NextEdges ==
    \/ /\ HasRoomForSail
       /\ \E shape \in Shapes : addShadeSail(shape)
       /\ UNCHANGED harnessVars
    \/ /\ IF isDrawMode THEN TRUE ELSE HasRoomForSail
       /\ ToggleDrawMode
       /\ UNCHANGED harnessVars
    \/ /\ \E point \in EdgeGrid :
             /\ SessionHasRoom(point, MaxEdgePoints)
             /\ handleMouseDown(point)
       /\ UNCHANGED harnessVars
    \/ /\ handleFinishDrawing
       /\ UNCHANGED harnessVars
    \/ /\ \E value \in SliderValues : setSmoothingTolerance(value)
       /\ UNCHANGED harnessVars
    \/ /\ handleCreateSail
       /\ UNCHANGED harnessVars
    \/ /\ handleCancelDrawing
       /\ UNCHANGED harnessVars
    \/ /\ \E edgeIndex \in 0..3 : toggleEdge(edgeIndex)
       /\ UNCHANGED harnessVars
    \/ /\ \E i \in {0, 1, Len(canvasObjects)} : selectObject(i)
       /\ UNCHANGED harnessVars
    \/ /\ \E placement \in Placements : transformObject(placement)
       /\ UNCHANGED harnessVars
    \/ /\ resetCanvas
       /\ UNCHANGED harnessVars

SpecEdges == Init /\ [][NextEdges]_vars

\* C12 as stated: in every reachable state, for every sail on the canvas
\* (preset, drawn, or rebuilt by an edge toggle), the length of its curve
\* profile equals the number of points of its stored polygon.
C12_ProfileLengthEqualsPoints ==
    \A k \in 1..Len(canvasObjects) :
        IsSail(canvasObjects[k])
            => Len(canvasObjects[k].curvedEdges) = Len(canvasObjects[k].sailPoints)

\* C12 amended: a sail created from a preset shape has one flag per stored
\* point; a sail created from a freehand drawing has one flag fewer than
\* stored points; an edge toggle from the edge controls keeps both relations.
C12_ProfileLengthByOrigin ==
    \A k \in 1..Len(canvasObjects) :
        LET obj == canvasObjects[k]
        IN  IsSail(obj) =>
              /\ obj.sailType = "standard" => Len(obj.curvedEdges) = Len(obj.sailPoints)
              /\ obj.sailType = "drawn" => Len(obj.curvedEdges) = Len(obj.sailPoints) - 1

\* A drawn sail whose stored polygon has no closing copy of its first point
\* has been rebuilt by an edge toggle, beside a preset sail.
C12_Witness ==
    /\ Len(Sails(canvasObjects)) = 2
    /\ Sails(canvasObjects)[1].sailType = "standard"
    /\ LET sail == Sails(canvasObjects)[2]
       IN  /\ sail.sailType = "drawn"
           /\ sail.sailPoints = <<Pt(0, 0), Pt(100, 0), Pt(0, 12)>>
           /\ sail.curvedEdges = <<TRUE, FALSE>>
           /\ sail.pathData.builder = "polygonToMixedPath"

\* Preset sails, sails drawn with a closing click, and modifyExistingSailEdges
\* called with profiles of 2 to 4 flags.
NextModify ==
    \/ /\ HasRoomForSail
       /\ \E shape \in Shapes : addShadeSail(shape)
       /\ UNCHANGED harnessVars
    \/ /\ IF isDrawMode THEN TRUE ELSE HasRoomForSail
       /\ ToggleDrawMode
       /\ UNCHANGED harnessVars
    \/ /\ \E point \in DrawGrid :
             /\ SessionHasRoom(point, MaxEdgePoints)
             /\ handleMouseDown(point)
       /\ UNCHANGED harnessVars
    \/ /\ \E n \in 3..4 : \E profile \in EdgeProfiles(n) : modifyExistingSailEdges(profile)
       /\ UNCHANGED harnessVars
    \/ /\ \E i \in {0, 1, Len(canvasObjects)} : selectObject(i)
       /\ UNCHANGED harnessVars
    \/ /\ \E placement \in Placements : transformObject(placement)
       /\ UNCHANGED harnessVars
    \/ /\ resetCanvas
       /\ UNCHANGED harnessVars

SpecModify == Init /\ [][NextModify]_vars

IsModifyStep ==
    /\ lastCall'.op = "modifyExistingSailEdges"
    /\ lastCall'.result = "sail"

\* C13: after modifyExistingSailEdges(E) on a canvas with at least one sail,
\* getCurrentSailEdges().curvedEdges equals E, the target sail's path is
\* polygonToMixedPath(its stored points, E, 0.05), and the number of sails, the
\* target's stored points, sail type, shape type, position, angle and scale,
\* and every other sail are unchanged.
C13_EdgeProfileSetGet ==
    [][(IsModifyStep /\ Len(Sails(canvasObjects)) >= 1) =>
          LET target == CurrentSail(canvasObjects, activeObject)
              old == canvasObjects[target]
              new == canvasObjects'[CurrentSail(canvasObjects', activeObject')]
              E == lastCall'.edges
          IN  /\ getCurrentSailEdges(canvasObjects', activeObject').curvedEdges = E
              /\ SailPath(new) = polygonToMixedPath(old.sailPoints, E, CallSagRatio)
              /\ Len(Sails(canvasObjects')) = Len(Sails(canvasObjects))
              /\ new.sailPoints = old.sailPoints
              /\ new.sailType = old.sailType
              /\ new.shapeType = old.shapeType
              /\ new.placement = old.placement
              /\ Sails(RemoveAt(canvasObjects, target))
                   = SubSeq(Sails(canvasObjects'), 1, Len(Sails(canvasObjects')) - 1)]_vars

\* The lower of two sails, a moved and rotated square preset, has just been
\* given a profile of one curved and three straight edges.
C13_Witness ==
    /\ lastCall.op = "modifyExistingSailEdges"
    /\ lastCall.result = "sail"
    /\ Len(Sails(canvasObjects)) = 2
    /\ LET sail == canvasObjects[CurrentSail(canvasObjects, activeObject)]
       IN  /\ sail.shapeType = "square"
           /\ sail.placement # InitialPlacement
           /\ sail.curvedEdges = <<TRUE, FALSE, FALSE, FALSE>>

----------------------------------------------------------------------------
(* The drawing session *)

\* The points the pointer clicks in the session specification: (9,12) is 15
\* from (0,0), (0,16) is 16 from it.
SessionGrid == {Pt(0, 0), Pt(0, 16), Pt(100, 100), Pt(9, 12)}

\* The points a drawing session stores at most in the session specification.
MaxSessionPoints == 4

\* The objects the canvas holds at most when a click or a pointer move adds one.
MaxSessionObjects == 8

\* The preset sails added at most in the session specification.
MaxSessionSails == 1

NextSession ==
    \/ /\ ToggleDrawMode
       /\ UNCHANGED harnessVars
    \/ /\ \E point \in SessionGrid :
             /\ SessionHasRoom(point, MaxSessionPoints)
             /\ IsClosingClick(drawnPoints, point) \/ Len(canvasObjects) < MaxSessionObjects
             /\ handleMouseDown(point)
       /\ UNCHANGED harnessVars
    \/ /\ Len(canvasObjects) < MaxSessionObjects
       /\ handleMouseMove
       /\ UNCHANGED harnessVars
    \/ /\ handleFinishDrawing
       /\ UNCHANGED harnessVars
    \/ /\ \E value \in SliderValues : setSmoothingTolerance(value)
       /\ UNCHANGED harnessVars
    \/ /\ handleCreateSail
       /\ UNCHANGED harnessVars
    \/ /\ handleCancelDrawing
       /\ UNCHANGED harnessVars
    \/ /\ handleColorChange
       /\ UNCHANGED harnessVars
    \/ /\ handleZoomIn
       /\ UNCHANGED harnessVars
    \/ /\ Len(Sails(canvasObjects)) < MaxSessionSails
       /\ addShadeSail("triangle")
       /\ UNCHANGED harnessVars

SpecSession == Init /\ [][NextSession]_vars

\* C14: the captured point sequence is empty whenever draw mode is not active,
\* and while draw mode is active it changes only by appending the clicked
\* point, until cancel, successful completion or draw-mode exit discards it;
\* every other event while drawing (selected-colour change, zoom,
\* edge-selection toggle) leaves the captured points unchanged.
C14_SessionLifetime ==
    /\ [](~isDrawMode => drawnPoints = <<>>)
    /\ [][(isDrawMode /\ isDrawMode')
            => \/ drawnPoints' = drawnPoints
               \/ /\ lastCall'.op = "handleMouseDown"
                  /\ drawnPoints' = Append(drawnPoints, lastCall'.point)]_vars
    /\ [][(isDrawMode /\ lastCall'.op \in {"handleColorChange", "handleZoomIn"})
            => drawnPoints' = drawnPoints]_vars

IsCancelStep == lastCall'.op = "handleCancelDrawing"

\* C15: immediately after handleCancelDrawing, in any drawing state, the
\* captured point sequence is empty, no temporary drawing object (segment
\* line, point marker, preview line) remains on the canvas, the smoothing
\* panel is closed, draw mode has been left, and the sails are unchanged.
C15_Cancellation ==
    [][IsCancelStep =>
          /\ drawnPoints' = <<>>
          /\ \A k \in 1..Len(canvasObjects') :
                canvasObjects'[k].kind \notin {"line", "circle", "preview"}
          /\ previewLineRef' = "null"
          /\ ~showSmoothingSlider'
          /\ ~isDrawMode'
          /\ Sails(canvasObjects') = Sails(canvasObjects)]_vars

\* Cancel has been pressed with a sail on the canvas; the canvas holds the
\* sail and nothing else.
C15_Witness ==
    /\ lastCall.op = "handleCancelDrawing"
    /\ Len(canvasObjects) = 1
    /\ IsSail(canvasObjects[1])
    /\ canvasObjects[1].shapeType = "triangle"

\* C19: while drawing, a pointer-down with fewer than 3 captured points
\* appends exactly that point; with 3 or more captured points a pointer-down
\* within 15 of the first captured point appends nothing and attempts sail
\* creation from the captured points with tolerance 5, and one farther than 15
\* appends exactly that point.
C19_ClickToClose ==
    [][IsMouseDownStep =>
          LET point == lastCall'.point
              within == (point.x - drawnPoints[1].x) * (point.x - drawnPoints[1].x)
                          + (point.y - drawnPoints[1].y) * (point.y - drawnPoints[1].y)
                        <= 15 * 15
              attempt == DrawnOutcome(drawnPoints, 5, canvasObjects)
          IN  IF Len(drawnPoints) >= 3 /\ within
              THEN /\ lastCall'.result = attempt.result
                   /\ IF attempt.result = "sail"
                      THEN /\ drawnPoints' = <<>>
                           /\ canvasObjects'[Len(canvasObjects')] = DrawnSail(attempt.points)
                      ELSE /\ drawnPoints' = drawnPoints
                           /\ canvasObjects' = canvasObjects
              ELSE /\ lastCall'.result = "appended"
                   /\ drawnPoints' = Append(drawnPoints, point)]_vars

\* A click at (9,12), exactly 15 from the first of three captured points, has
\* closed the triangle (0,0), (0,16), (100,100) into a sail.
C19_Witness ==
    /\ lastCall.op = "handleMouseDown"
    /\ lastCall.point = Pt(9, 12)
    /\ lastCall.result = "sail"
    /\ drawnPoints = <<>>
    /\ canvasObjects # <<>>
    /\ canvasObjects[Len(canvasObjects)].sailPoints
         = <<Pt(0, 0), Pt(0, 16), Pt(100, 100), Pt(0, 0)>>

----------------------------------------------------------------------------
(* Perspective estimator *)

\* Mutant: the scale is not floored.
FloorTenthNone(num, den) == [num |-> num, den |-> den]

\* Math.max(0.1, num/den) for num >= 0, den > 0, as a fraction.
FloorTenth(num, den) ==
    IF 10 * num < den THEN [num |-> 1, den |-> 10] ELSE [num |-> num, den |-> den]

\* getObjectCorners: top-left, top-right, bottom-left, bottom-right.
getObjectCorners(bounds) ==
    <<Pt(bounds.left, bounds.top),
      Pt(bounds.left + bounds.width, bounds.top),
      Pt(bounds.left, bounds.top + bounds.height),
      Pt(bounds.left + bounds.width, bounds.top + bounds.height)>>

\* Mutant: the scales divided by the width and height instead of twice them.
applyPerspectiveTransformNoHalf(bounds, corners) ==
    LET topLeft == corners[1]
        topRight == corners[2]
        bottomLeft == corners[3]
        bottomRight == corners[4]
        topWidth == Abs(topRight.x - topLeft.x)
        bottomWidth == Abs(bottomRight.x - bottomLeft.x)
        leftHeight == Abs(bottomLeft.y - topLeft.y)
        rightHeight == Abs(bottomRight.y - topRight.y)
    IN  [set |-> TRUE,
         left |-> [num |-> topLeft.x + topRight.x + bottomLeft.x + bottomRight.x, den |-> 4],
         top |-> [num |-> topLeft.y + topRight.y + bottomLeft.y + bottomRight.y, den |-> 4],
         scaleX |-> FloorTenth(topWidth + bottomWidth, bounds.width),
         scaleY |-> FloorTenth(leftHeight + rightHeight, bounds.height),
         skewX |-> [num |-> 45 * ((topRight.x - topLeft.x) - (bottomRight.x - bottomLeft.x)),
                    den |-> bounds.height],
         skewY |-> [num |-> 45 * ((bottomLeft.x - topLeft.x) - (bottomRight.x - topRight.x)),
                    den |-> bounds.width],
         originX |-> "center", originY |-> "center"]

\* Mutant: skewY taken from the two heights (y differences), as skewX is taken
\* from the two widths.
applyPerspectiveTransformSkewFromY(bounds, corners) ==
    LET topLeft == corners[1]
        topRight == corners[2]
        bottomLeft == corners[3]
        bottomRight == corners[4]
        topWidth == Abs(topRight.x - topLeft.x)
        bottomWidth == Abs(bottomRight.x - bottomLeft.x)
        leftHeight == Abs(bottomLeft.y - topLeft.y)
        rightHeight == Abs(bottomRight.y - topRight.y)
    IN  [set |-> TRUE,
         left |-> [num |-> topLeft.x + topRight.x + bottomLeft.x + bottomRight.x, den |-> 4],
         top |-> [num |-> topLeft.y + topRight.y + bottomLeft.y + bottomRight.y, den |-> 4],
         scaleX |-> FloorTenth(topWidth + bottomWidth, 2 * bounds.width),
         scaleY |-> FloorTenth(leftHeight + rightHeight, 2 * bounds.height),
         skewX |-> [num |-> 45 * ((topRight.x - topLeft.x) - (bottomRight.x - bottomLeft.x)),
                    den |-> bounds.height],
         skewY |-> [num |-> 45 * ((bottomLeft.y - topLeft.y) - (bottomRight.y - topRight.y)),
                    den |-> bounds.width],
         originX |-> "center", originY |-> "center"]

\* Mutant: skewX is taken from the top side alone, the bottom side not
\* subtracted.
applyPerspectiveTransformTopSkew(bounds, corners) ==
    LET topLeft == corners[1]
        topRight == corners[2]
        bottomLeft == corners[3]
        bottomRight == corners[4]
        topWidth == Abs(topRight.x - topLeft.x)
        bottomWidth == Abs(bottomRight.x - bottomLeft.x)
        leftHeight == Abs(bottomLeft.y - topLeft.y)
        rightHeight == Abs(bottomRight.y - topRight.y)
    IN  [set |-> TRUE,
         left |-> [num |-> topLeft.x + topRight.x + bottomLeft.x + bottomRight.x, den |-> 4],
         top |-> [num |-> topLeft.y + topRight.y + bottomLeft.y + bottomRight.y, den |-> 4],
         scaleX |-> FloorTenth(topWidth + bottomWidth, 2 * bounds.width),
         scaleY |-> FloorTenth(leftHeight + rightHeight, 2 * bounds.height),
         skewX |-> [num |-> 45 * (topRight.x - topLeft.x),
                    den |-> bounds.height],
         skewY |-> [num |-> 45 * ((bottomLeft.x - topLeft.x) - (bottomRight.x - topRight.x)),
                    den |-> bounds.width],
         originX |-> "center", originY |-> "center"]

\* applyPerspectiveTransform(corners) on an object whose getBoundingRect() is
\* bounds: the properties it sets.  Every value is a fraction num/den; the
\* skews are already multiplied by 45.
applyPerspectiveTransform(bounds, corners) ==
    LET topLeft == corners[1]
        topRight == corners[2]
        bottomLeft == corners[3]
        bottomRight == corners[4]
        topWidth == Abs(topRight.x - topLeft.x)
        bottomWidth == Abs(bottomRight.x - bottomLeft.x)
        leftHeight == Abs(bottomLeft.y - topLeft.y)
        rightHeight == Abs(bottomRight.y - topRight.y)
    IN  [set |-> TRUE,
         left |-> [num |-> topLeft.x + topRight.x + bottomLeft.x + bottomRight.x, den |-> 4],
         top |-> [num |-> topLeft.y + topRight.y + bottomLeft.y + bottomRight.y, den |-> 4],
         scaleX |-> FloorTenth(topWidth + bottomWidth, 2 * bounds.width),
         scaleY |-> FloorTenth(leftHeight + rightHeight, 2 * bounds.height),
         skewX |-> [num |-> 45 * ((topRight.x - topLeft.x) - (bottomRight.x - bottomLeft.x)),
                    den |-> bounds.height],
         skewY |-> [num |-> 45 * ((bottomLeft.x - topLeft.x) - (bottomRight.x - topRight.x)),
                    den |-> bounds.width],
         originX |-> "center", originY |-> "center"]

Presets == {"normal", "tiltLeft", "tiltRight", "stretch", "perspective"}

\* The corners of applyPresetPerspective.  The widths and heights of the
\* harness are even, so width/2 and height/2 are integers.
PresetCorners(bounds, preset) ==
    LET centerX == bounds.left + bounds.width \div 2
        centerY == bounds.top + bounds.height \div 2
        halfW == bounds.width \div 2
        halfH == bounds.height \div 2
    IN  CASE preset = "normal" ->
               <<Pt(centerX - halfW, centerY - halfH), Pt(centerX + halfW, centerY - halfH),
                 Pt(centerX - halfW, centerY + halfH), Pt(centerX + halfW, centerY + halfH)>>
          [] preset = "tiltLeft" ->
               <<Pt(centerX - halfW + 20, centerY - halfH),
                 Pt(centerX + halfW, centerY - halfH - 10),
                 Pt(centerX - halfW - 20, centerY + halfH),
                 Pt(centerX + halfW, centerY + halfH + 10)>>
          [] preset = "tiltRight" ->
               <<Pt(centerX - halfW, centerY - halfH - 10),
                 Pt(centerX + halfW - 20, centerY - halfH),
                 Pt(centerX - halfW, centerY + halfH + 10),
                 Pt(centerX + halfW + 20, centerY + halfH)>>
          [] preset = "stretch" ->
               <<Pt(centerX - halfW - 30, centerY - halfH),
                 Pt(centerX + halfW + 30, centerY - halfH),
                 Pt(centerX - halfW + 10, centerY + halfH),
                 Pt(centerX + halfW - 10, centerY + halfH)>>
          [] preset = "perspective" ->
               <<Pt(centerX - halfW + 15, centerY - halfH - 5),
                 Pt(centerX + halfW - 15, centerY - halfH - 5),
                 Pt(centerX - halfW - 15, centerY + halfH + 15),
                 Pt(centerX + halfW + 15, centerY + halfH + 15)>>

\* The bounding rectangles tried: small ones, and the rectangle preset's.
BoundsSet ==
    {[left |-> l, top |-> 0, width |-> w, height |-> h] :
        l \in {0, 10}, w \in {4, 40}, h \in {4, 6}}
    \cup {[left |-> 120, top |-> 140, width |-> 200, height |-> 80]}

\* The displacement of a dragged corner from its corner of the bounding box.
CornerOffsets == {Pt(ox, oy) : ox \in {-2, 0, 2}, oy \in {-2, 0, 2}}

PerspInit ==
    /\ SimplifyIdle
    /\ PathIdle
    /\ AppIdle
    /\ CanvasInit
    /\ tPhase = "in"
    /\ tBounds \in BoundsSet
    /\ tPreset = "none"
    /\ tCorners = <<>>
    /\ tObject = [set |-> FALSE]
    /\ tAnchors = <<>>
    /\ tOriginal = <<>>
    /\ tRefreshes = 0
    /\ tApplied = 0

\* updatePerspective: the anchors, dragged to corners, are handed to
\* applyPerspectiveTransform.
ApplyCorners ==
    /\ tPhase = "in"
    /\ \E offsets \in [1..4 -> CornerOffsets] :
          LET corners == [k \in 1..4 |->
                            Pt(getObjectCorners(tBounds)[k].x + offsets[k].x,
                               getObjectCorners(tBounds)[k].y + offsets[k].y)]
          IN  /\ tCorners' = corners
              /\ tObject' = applyPerspectiveTransform(tBounds, corners)
    /\ tPhase' = "out"
    /\ tApplied' = tApplied + 1
    /\ UNCHANGED <<tBounds, tPreset, tAnchors, tOriginal, tRefreshes>>
    /\ UNCHANGED <<simplifyVars, pathVars, canvasVars, appVars>>

\* Mutant: the anchors are placed as createAnchorControls places them, half an
\* anchor up and left of the corners.
MovedAnchorsOffset(anchors, corners) ==
    [k \in 1..Len(anchors) |->
        [anchors[k] EXCEPT !.left = corners[k].x - 6, !.top = corners[k].y - 6]]

\* The anchors of anchorControls moved to corners, index by index.
MovedAnchors(anchors, corners) ==
    [k \in 1..Len(anchors) |->
        [anchors[k] EXCEPT !.left = corners[k].x, !.top = corners[k].y]]

\* applyPresetPerspective(preset): the corners are computed from the bounding
\* rectangle, the anchors (if any) are moved to them and they are applied.
applyPresetPerspective(preset) ==
    /\ tPhase \in {"in", "live"}
    /\ tBounds.width % 2 = 0 /\ tBounds.height % 2 = 0
    /\ tPreset' = preset
    /\ tCorners' = PresetCorners(tBounds, preset)
    /\ tAnchors' = MovedAnchors(tAnchors, PresetCorners(tBounds, preset))
    /\ tObject' = applyPerspectiveTransform(tBounds, PresetCorners(tBounds, preset))
    /\ tPhase' = (IF tPhase = "in" THEN "out" ELSE tPhase)
    /\ lastCall' = (IF tPhase = "in" THEN lastCall
                    ELSE Call("applyPresetPerspective", NoPoint))
    /\ tApplied' = tApplied + 1
    /\ UNCHANGED <<tBounds, tOriginal, tRefreshes>>
    /\ UNCHANGED <<canvasObjects, activeObject, isDrawMode, drawnPoints,
                   showSmoothingSlider, smoothingTolerance, previewLineRef>>
    /\ UNCHANGED <<simplifyVars, pathVars, appVars>>

NextPersp ==
    \/ ApplyCorners
    \/ \E preset \in Presets : applyPresetPerspective(preset)

SpecPersp == PerspInit /\ [][NextPersp]_vars

FracEq(a, b) == a.num * b.den = b.num * a.den

\* C8: perspective identity - when the corners handed to
\* applyPerspectiveTransform are the corners of the object's bounding box (as
\* the normal preset hands them), the object is set to scaleX = 1, scaleY = 1,
\* skewX = 0, skewY = 0 and its center to the center of the bounding box.
C8_PerspectiveIdentity ==
    tPhase = "out" =>
        /\ tPreset = "normal" => tCorners = getObjectCorners(tBounds)
        /\ tCorners = getObjectCorners(tBounds) =>
              /\ FracEq(tObject.scaleX, [num |-> 1, den |-> 1])
              /\ FracEq(tObject.scaleY, [num |-> 1, den |-> 1])
              /\ tObject.skewX.num = 0
              /\ tObject.skewY.num = 0
              /\ FracEq(tObject.left, [num |-> 2 * tBounds.left + tBounds.width, den |-> 2])
              /\ FracEq(tObject.top, [num |-> 2 * tBounds.top + tBounds.height, den |-> 2])
              /\ tObject.originX = "center" /\ tObject.originY = "center"

\* The normal preset has been applied to the rectangle preset's bounding box.
C8_Witness ==
    /\ tPhase = "out"
    /\ tPreset = "normal"
    /\ tBounds.width = 200
    /\ tCorners = getObjectCorners(tBounds)
    /\ tObject.set

\* max(a, b) of two fractions with positive denominators.
FracMax(a, b) == IF a.num * b.den >= b.num * a.den THEN a ELSE b

\* C9: for every corner set (TL, TR, BL, BR) applied to an object of width
\* W > 0 and height H > 0, applyPerspectiveTransform sets the center to the
\* average of the four corners, scaleX = max(0.1, (|TR.x-TL.x| + |BR.x-BL.x|)/(2W)),
\* scaleY = max(0.1, (|BL.y-TL.y| + |BR.y-TR.y|)/(2H)),
\* skewX = 45 * ((TR.x-TL.x) - (BR.x-BL.x))/H and
\* skewY = 45 * ((BL.x-TL.x) - (BR.x-TR.x))/W.
C9_EstimatorFormulas ==
    tPhase = "out" =>
        LET TL == tCorners[1]
            TR == tCorners[2]
            BL == tCorners[3]
            BR == tCorners[4]
            W == tBounds.width
            H == tBounds.height
        IN  /\ 4 * tObject.left.num = (TL.x + TR.x + BL.x + BR.x) * tObject.left.den
            /\ 4 * tObject.top.num = (TL.y + TR.y + BL.y + BR.y) * tObject.top.den
            /\ FracEq(tObject.scaleX,
                      FracMax([num |-> 1, den |-> 10],
                              [num |-> Abs(TR.x - TL.x) + Abs(BR.x - BL.x), den |-> 2 * W]))
            /\ FracEq(tObject.scaleY,
                      FracMax([num |-> 1, den |-> 10],
                              [num |-> Abs(BL.y - TL.y) + Abs(BR.y - TR.y), den |-> 2 * H]))
            /\ tObject.skewX.num * H
                  = 45 * ((TR.x - TL.x) - (BR.x - BL.x)) * tObject.skewX.den
            /\ tObject.skewY.num * W
                  = 45 * ((BL.x - TL.x) - (BR.x - TR.x)) * tObject.skewY.den

\* Dragged corners for which the 0.1 floor applies to one scale and not to
\* the other, with both skews different from zero.
C9_Witness ==
    /\ tPhase = "out"
    /\ tPreset = "none"
    /\ tObject.scaleY = [num |-> 1, den |-> 10]
    /\ tObject.scaleX.num > tObject.scaleX.den
    /\ tObject.skewX.num # 0
    /\ tObject.skewY.num # 0

----------------------------------------------------------------------------
(* One PerspectiveTransform operated on again and again *)

\* anchorSize of createAnchorControls.
AnchorSize == 12

IsAnchor(obj) == obj.kind = "isAnchor"

\* The canvas after this.canvas.remove(anchor) for every anchor of anchors.
WithoutAnchors(objects, anchors) ==
    SelectSeq(objects,
              LAMBDA obj : ~(/\ IsAnchor(obj)
                             /\ \E k \in 1..Len(anchors) :
                                   anchors[k].anchorIndex = obj.anchorIndex))

\* The four circles createAnchorControls builds from the bounding rectangle.
NewAnchors(bounds) ==
    [k \in 1..4 |->
        [anchorIndex |-> k - 1,
         left |-> getObjectCorners(bounds)[k].x - AnchorSize \div 2,
         top |-> getObjectCorners(bounds)[k].y - AnchorSize \div 2]]

AnchorObjects == [k \in 1..4 |-> [kind |-> "isAnchor", anchorIndex |-> k - 1]]

\* Mutant: the anchors are created without removing the ones already there.
createAnchorControlsNoRemove ==
    /\ tAnchors' = tAnchors \o NewAnchors(tBounds)
    /\ canvasObjects' = canvasObjects \o AnchorObjects

\* createAnchorControls: removeAnchorControls, then one anchor per corner of
\* the bounding rectangle, added to the canvas and pushed on anchorControls.
createAnchorControls ==
    /\ tAnchors' = NewAnchors(tBounds)
    /\ canvasObjects' = WithoutAnchors(canvasObjects, tAnchors) \o AnchorObjects

removeAnchorControls ==
    /\ tAnchors' = <<>>
    /\ canvasObjects' = WithoutAnchors(canvasObjects, tAnchors)

toggleAnchorMode(enabled) ==
    /\ tPhase = "live"
    /\ lastCall' = [Call("toggleAnchorMode", NoPoint) EXCEPT
                       !.result = IF ~enabled THEN "removed"
                                  ELSE IF tAnchors = <<>> THEN "created"
                                  ELSE "recreated"]
    /\ IF enabled THEN createAnchorControls ELSE removeAnchorControls
    /\ UNCHANGED <<tPhase, tBounds, tPreset, tCorners, tObject, tOriginal, tRefreshes,
                   tApplied>>
    /\ UNCHANGED <<activeObject, isDrawMode, drawnPoints, showSmoothingSlider,
                   smoothingTolerance, previewLineRef>>
    /\ UNCHANGED <<simplifyVars, pathVars, appVars>>

\* The 'moving' event of the anchor with anchorIndex index, which fabric has
\* placed at newPosition: onAnchorMove and updatePerspective.
onAnchorMove(index, newPosition) ==
    /\ tPhase = "live"
    /\ index < Len(tAnchors)
    /\ LET moved == [tAnchors EXCEPT ![index + 1].left = newPosition.x,
                                     ![index + 1].top = newPosition.y]
           anchors == [k \in 1..Len(moved) |-> Pt(moved[k].left, moved[k].top)]
           corners == [anchors EXCEPT ![index + 1] = newPosition]
       IN  /\ tAnchors' = moved
           /\ tCorners' = corners
           /\ tObject' = applyPerspectiveTransform(tBounds, corners)
    /\ tPreset' = "none"
    /\ lastCall' = Call("onAnchorMove", newPosition)
    /\ tApplied' = tApplied + 1
    /\ UNCHANGED <<tPhase, tBounds, tOriginal, tRefreshes>>
    /\ UNCHANGED <<canvasObjects, activeObject, isDrawMode, drawnPoints,
                   showSmoothingSlider, smoothingTolerance, previewLineRef>>
    /\ UNCHANGED <<simplifyVars, pathVars, appVars>>

\* The object constructed unscaled and unskewed, width and height are those of
\* originalPoints.  With the properties object applied and both skews 0, its
\* bounding rectangle is that size times the scales, centered on (left, top).
ScaledWidth(object) ==
    ((tOriginal[2].x - tOriginal[1].x) * object.scaleX.num) \div object.scaleX.den

ScaledHeight(object) ==
    ((tOriginal[3].y - tOriginal[1].y) * object.scaleY.num) \div object.scaleY.den

\* The rectangle is modelled when its four numbers are integers.
HasIntegerRect(object) ==
    /\ object.set
    /\ object.skewX.num = 0 /\ object.skewY.num = 0
    /\ ((tOriginal[2].x - tOriginal[1].x) * object.scaleX.num) % object.scaleX.den = 0
    /\ ((tOriginal[3].y - tOriginal[1].y) * object.scaleY.num) % object.scaleY.den = 0
    /\ ScaledWidth(object) > 0 /\ ScaledHeight(object) > 0
    /\ object.left.num - 2 * ScaledWidth(object) >= 0
    /\ object.top.num - 2 * ScaledHeight(object) >= 0
    /\ (object.left.num - 2 * ScaledWidth(object)) % 4 = 0
    /\ (object.top.num - 2 * ScaledHeight(object)) % 4 = 0

CurrentRect(object) ==
    [left |-> (object.left.num - 2 * ScaledWidth(object)) \div 4,
     top |-> (object.top.num - 2 * ScaledHeight(object)) \div 4,
     width |-> ScaledWidth(object),
     height |-> ScaledHeight(object)]

\* The canvas library recomputes the coordinates of the object (setCoords, as
\* at the end of a pointer interaction with it): from then on
\* getBoundingRect() returns the rectangle of the object as last set.
setCoords ==
    /\ tPhase = "live"
    /\ HasIntegerRect(tObject)
    /\ tBounds' = CurrentRect(tObject)
    /\ tBounds' # tBounds
    /\ tRefreshes' = tRefreshes + 1
    /\ lastCall' = Call("setCoords", NoPoint)
    /\ UNCHANGED <<tPhase, tPreset, tCorners, tObject, tAnchors, tOriginal, tApplied>>
    /\ UNCHANGED <<canvasObjects, activeObject, isDrawMode, drawnPoints,
                   showSmoothingSlider, smoothingTolerance, previewLineRef>>
    /\ UNCHANGED <<simplifyVars, pathVars, appVars>>

\* The bounding rectangles the object is constructed with.
AnchorBoundsSet ==
    {[left |-> 100, top |-> 100, width |-> 40, height |-> 40],
     [left |-> 120, top |-> 140, width |-> 200, height |-> 80]}

\* The positions an anchor is dragged to: the places of the anchors of the
\* object as constructed, and the same one height above.
DragTargets ==
    {Pt(px - AnchorSize \div 2, py - AnchorSize \div 2) :
        px \in {tOriginal[1].x, tOriginal[2].x},
        py \in {2 * tOriginal[1].y - tOriginal[3].y, tOriginal[1].y, tOriginal[3].y}}

AnchorsInit ==
    /\ SimplifyIdle
    /\ PathIdle
    /\ AppIdle
    /\ activeObject = 0
    /\ isDrawMode = FALSE
    /\ drawnPoints = <<>>
    /\ showSmoothingSlider = FALSE
    /\ smoothingTolerance = InitialSmoothingTolerance
    /\ previewLineRef = "null"
    /\ lastCall = Call("none", NoPoint)
    /\ canvasObjects = <<[kind |-> "object"]>>
    /\ tPhase = "live"
    /\ tBounds \in AnchorBoundsSet
    /\ tOriginal = getObjectCorners(tBounds)
    /\ tPreset = "none"
    /\ tCorners = <<>>
    /\ tObject = [set |-> FALSE]
    /\ tAnchors = <<>>
    /\ tRefreshes = 0
    /\ tApplied = 0

\* The corners are applied at most MaxApplications times.
MaxApplications == 3

\* The coordinates of the object are recomputed at most MaxRefreshes times.
MaxRefreshes == 1

\* The presets applied to the instance operated on again and again.
AnchorPresets == {"normal", "tiltLeft"}

NextAnchors ==
    \/ \E enabled \in BOOLEAN : toggleAnchorMode(enabled)
    \/ /\ tApplied < MaxApplications
       /\ \E index \in 0..3 : \E newPosition \in DragTargets : onAnchorMove(index, newPosition)
    \/ /\ tApplied < MaxApplications
       /\ \E preset \in AnchorPresets : applyPresetPerspective(preset)
    \/ /\ tRefreshes < MaxRefreshes
       /\ setCoords

SpecAnchors == AnchorsInit /\ [][NextAnchors]_vars

\* C16: the perspective operation is idempotent and history-independent:
\* applying the same four corners twice in a row leaves the object with the
\* same scaleX, scaleY, skewX, skewY and center as applying them once, the
\* result depending only on the corners and the object's original width and
\* height, not on previously applied corner sets.
C16_SameCornersSameTransform ==
    [][(tObject.set /\ tObject'.set /\ tCorners' = tCorners)
          => /\ FracEq(tObject'.scaleX, tObject.scaleX)
             /\ FracEq(tObject'.scaleY, tObject.scaleY)
             /\ FracEq(tObject'.skewX, tObject.skewX)
             /\ FracEq(tObject'.skewY, tObject.skewY)
             /\ FracEq(tObject'.left, tObject.left)
             /\ FracEq(tObject'.top, tObject.top)]_vars

\* C17: after any sequence of anchor drags and preset applications on an
\* object with positive bounding width and height, the scaleX and scaleY the
\* estimator has set are each at least 0.1, whatever the corner positions,
\* crossed or coincident corners included.
C17_ScaleAtLeastTenth ==
    (tPhase = "live" /\ tObject.set) =>
        /\ tBounds.width > 0 /\ tBounds.height > 0
        /\ tObject.scaleX.den > 0 /\ tObject.scaleY.den > 0
        /\ 10 * tObject.scaleX.num >= tObject.scaleX.den
        /\ 10 * tObject.scaleY.num >= tObject.scaleY.den

\* The bottom anchors have been dragged onto the top ones (left and right
\* heights 0): scaleY is the floor 0.1, and the rectangle of the object,
\* recomputed, has a tenth of the height it was constructed with.
C17_Witness ==
    /\ tPhase = "live"
    /\ tObject.set
    /\ tCorners[3] = tCorners[1]
    /\ tCorners[4] = tCorners[2]
    /\ 10 * tBounds.height = tOriginal[3].y - tOriginal[1].y
    /\ tObject.scaleY = [num |-> 1, den |-> 10]

\* The anchorIndex values of the anchor objects on the canvas, in order.
AnchorsOnCanvas ==
    LET found == SelectSeq(canvasObjects, IsAnchor)
    IN  [k \in 1..Len(found) |-> found[k].anchorIndex]

-----------------------------------------------------------------------------
(* The stored polygon of a sail *)

\* No two points at adjacent indices of points are equal.
NoAdjacentEqual(points) ==
    \A k \in 1..(Len(points) - 1) : points[k] # points[k + 1]

\* The last point of points is not the first one.
LastDiffersFromFirst(points) == points[Len(points)] # points[1]

\* C22 as stated: the stored polygon of every sail has no two consecutive
\* equal points, the last point counting as consecutive to the first (the
\* polygon is implicitly closed).
C22_NoConsecutiveEqual ==
    \A k \in 1..Len(canvasObjects) :
        IsSail(canvasObjects[k]) =>
            /\ NoAdjacentEqual(canvasObjects[k].sailPoints)
            /\ LastDiffersFromFirst(canvasObjects[k].sailPoints)

\* C22 amended: the stored polygon of every sail has no two equal points at
\* adjacent indices; the last point of a preset sail differs from its first;
\* the last point of a drawn sail is either the closing copy of its first
\* point or a different point no farther than the largest smoothing tolerance
\* (15) from it.
C22_NoAdjacentEqualStored ==
    \A k \in 1..Len(canvasObjects) :
        LET obj == canvasObjects[k]
            points == obj.sailPoints
        IN  IsSail(obj) =>
              /\ NoAdjacentEqual(points)
              /\ obj.sailType = "standard" => LastDiffersFromFirst(points)
              /\ (obj.sailType = "drawn" /\ LastDiffersFromFirst(points))
                    => DistanceSq(points[Len(points)], points[1]) <= 15 * 15

\* A drawn sail whose polygon carries the closing copy of its first point
\* stands beside a preset sail.
C22_Witness ==
    /\ Len(Sails(canvasObjects)) = 2
    /\ Sails(canvasObjects)[1].sailType = "standard"
    /\ LET sail == Sails(canvasObjects)[2]
       IN  /\ sail.sailType = "drawn"
           /\ sail.sailPoints = <<Pt(0, 0), Pt(100, 0), Pt(100, 100), Pt(0, 0)>>

\* The number of edge commands (L or Q) of a path.
EdgeCommandCount(path) ==
    Cardinality({k \in 1..Len(path) : path[k].op \in {"L", "Q"}})

\* C23: for every sail created from a freehand drawing, the number of curve
\* flags stored on the sail equals the number of edge commands (L or Q) of
\* its rendered path, whether the closing point was appended or not.
C23_FlagPerRenderedEdge ==
    \A k \in 1..Len(canvasObjects) :
        LET obj == canvasObjects[k]
        IN  (IsSail(obj) /\ obj.sailType = "drawn")
              => Len(obj.curvedEdges) = EdgeCommandCount(SailPath(obj))

-----------------------------------------------------------------------------
(* The five presets applied to one PerspectiveTransform *)

\* Anchor mode switched on and off, anchor drags, the five presets, and the
\* recomputation of the coordinates of the object.
NextPresets ==
    \/ \E enabled \in BOOLEAN : toggleAnchorMode(enabled)
    \/ /\ tApplied < MaxApplications
       /\ \E index \in 0..3 : \E newPosition \in DragTargets : onAnchorMove(index, newPosition)
    \/ /\ tApplied < MaxApplications
       /\ \E preset \in Presets : applyPresetPerspective(preset)
    \/ /\ tRefreshes < MaxRefreshes
       /\ setCoords

SpecPresets == AnchorsInit /\ [][NextPresets]_vars

\* What each preset adds to the four corners of the bounding box (top-left,
\* top-right, bottom-left, bottom-right).
PresetOffsets(preset) ==
    CASE preset = "normal" -> <<Pt(0, 0), Pt(0, 0), Pt(0, 0), Pt(0, 0)>>
      [] preset = "tiltLeft" -> <<Pt(20, 0), Pt(0, -10), Pt(-20, 0), Pt(0, 10)>>
      [] preset = "tiltRight" -> <<Pt(0, -10), Pt(-20, 0), Pt(0, 10), Pt(20, 0)>>
      [] preset = "stretch" -> <<Pt(-30, 0), Pt(30, 0), Pt(10, 0), Pt(-10, 0)>>
      [] preset = "perspective" -> <<Pt(15, -5), Pt(-15, -5), Pt(-15, 15), Pt(15, 15)>>

\* The preset corners of a bounding box, from its own corners.
OffsetCorners(bounds, preset) ==
    [k \in 1..4 |-> Pt(getObjectCorners(bounds)[k].x + PresetOffsets(preset)[k].x,
                       getObjectCorners(bounds)[k].y + PresetOffsets(preset)[k].y)]

\* C24: after applyPresetPerspective(kind), for each of the five kinds, every
\* existing anchor i is at preset corner i computed from the bounding box and
\* the object has the transform applyPerspectiveTransform gives for those
\* corners; with no anchors the transform is applied all the same, and the
\* call creates no anchor.
C24_PresetMovesAnchors ==
    /\ []((tPhase = "live" /\ lastCall.op = "applyPresetPerspective") =>
            /\ tPreset \in Presets
            /\ Len(tAnchors) \in {0, 4}
            /\ \A k \in 1..Len(tAnchors) :
                  /\ tAnchors[k].left = OffsetCorners(tBounds, tPreset)[k].x
                  /\ tAnchors[k].top = OffsetCorners(tBounds, tPreset)[k].y
            /\ tObject = applyPerspectiveTransform(tBounds, OffsetCorners(tBounds, tPreset))
            /\ AnchorsOnCanvas = [k \in 1..Len(tAnchors) |-> k - 1])
    /\ [][lastCall'.op = "applyPresetPerspective"
            => /\ Len(tAnchors') = Len(tAnchors)
               /\ canvasObjects' = canvasObjects]_vars

\* The perspective preset has been applied with the four anchors present,
\* after the rectangle of the object had changed: the anchors are at the
\* preset corners of the changed rectangle.
C24_Witness ==
    /\ tPhase = "live"
    /\ lastCall.op = "applyPresetPerspective"
    /\ tPreset = "perspective"
    /\ tBounds \notin AnchorBoundsSet
    /\ Len(tAnchors) = 4
    /\ tAnchors[1].left = tBounds.left + 15
    /\ tAnchors[4].top = tBounds.top + tBounds.height + 15
    /\ tObject.set

\* getCurrentSettings: the corner positions it reads off the anchors, (0, 0)
\* standing for an anchor that is not there.
getCurrentSettings ==
    [k \in 1..4 |-> IF k <= Len(tAnchors)
                    THEN Pt(tAnchors[k].left, tAnchors[k].top)
                    ELSE Pt(0, 0)]

\* C25: immediately after createAnchorControls the four anchor positions, as
\* getCurrentSettings and updatePerspective read them, are the four corners
\* of the bounding box of the object, so that a 'moving' event of an anchor
\* that has not changed position leaves the center of the object at the
\* center of the bounding box.
C25_AnchorsAtCorners ==
    /\ []((tPhase = "live" /\ lastCall.op = "toggleAnchorMode"
              /\ lastCall.result \in {"created", "recreated"})
            => getCurrentSettings = getObjectCorners(tBounds))
    /\ [][(/\ tPhase = "live"
           /\ lastCall.op = "toggleAnchorMode"
           /\ lastCall.result \in {"created", "recreated"}
           /\ lastCall'.op = "onAnchorMove"
           /\ tAnchors' = tAnchors)
            => /\ tObject'.left.num = (2 * tBounds.left + tBounds.width) * 2
               /\ tObject'.left.den = 4
               /\ tObject'.top.num = (2 * tBounds.top + tBounds.height) * 2
               /\ tObject'.top.den = 4]_vars

-----------------------------------------------------------------------------
(* The two path builders compared *)

\* The profile flags with FALSE for every edge of an n-point polygon it has
\* no flag for.
PaddedWithFalse(flags, n) ==
    [k \in 1..n |-> IF k <= Len(flags) THEN flags[k] ELSE FALSE]

\* C27: for every polygon and sag ratio, polygonToCurvedPath gives the command
\* sequence polygonToMixedPath gives with every flag true; so a sail rendered
\* by polygonToCurvedPath and rebuilt by modifyExistingSailEdges with the
\* all-true profile of one flag per stored point keeps its path; and a flag
\* missing from a shorter profile is treated as straight.
C27_CurvedIsMixedAllTrue ==
    pPhase = "out" =>
        /\ pCurved = polygonToMixedPath(pPoly, AllTrue(Len(pPoly)), pSag)
        /\ pFlags = AllTrue(Len(pPoly)) => pMixed = pCurved
        /\ pSag = CallSagRatio =>
              /\ SailPath(DrawnSail(pPoly)) = pCurved
              /\ SailPath(RebuiltSail(DrawnSail(pPoly), AllTrue(Len(pPoly)))) = pCurved
        /\ pMixed = polygonToMixedPath(pPoly, PaddedWithFalse(pFlags, Len(pPoly)), pSag)
        /\ \A i \in Len(pFlags)..(Len(pPoly) - 1) :
              \A k \in 1..Len(pMixed) :
                 (pMixed[k].op = "Q" /\ pMixed[k].x = NextPoint(pPoly, i).x
                                    /\ pMixed[k].y = NextPoint(pPoly, i).y)
                    => \E j \in 0..(Len(pFlags) - 1) : NextPoint(pPoly, j) = NextPoint(pPoly, i)

\* The square preset built at the sag ratio of the call sites with four true
\* flags: both builders give the move, four curves and the close.
C27_Witness ==
    /\ pPhase = "out"
    /\ pPoly = getShapePoints("square")
    /\ pSag = CallSagRatio
    /\ pFlags = AllTrue(4)
    /\ Len(pCurved) = 6
    /\ \A k \in 2..5 : pMixed[k].op = "Q"
    /\ pMixed = pCurved

-----------------------------------------------------------------------------
(* The two skews of applyPerspectiveTransform *)

\* corners with every y coordinate replaced by that of the same corner of
\* the bounding box.
WithBoxYs(bounds, corners) ==
    [k \in 1..4 |-> Pt(corners[k].x, getObjectCorners(bounds)[k].y)]

\* corners and the corners of the bounding box have the same x coordinates.
DiffersOnlyInY(bounds, corners) ==
    \A k \in 1..4 : corners[k].x = getObjectCorners(bounds)[k].x

\* C28: for every corner set the skews applyPerspectiveTransform computes
\* satisfy skewX * originalHeight = skewY * originalWidth; skewY does not
\* depend on any corner y coordinate; and corners that differ from those of
\* the bounding box only in y give skewX = skewY = 0.
C28_SkewsProportional ==
    tPhase = "out" =>
        /\ tObject.skewX.den > 0 /\ tObject.skewY.den > 0
        /\ tObject.skewX.num * tBounds.height * tObject.skewY.den
              = tObject.skewY.num * tBounds.width * tObject.skewX.den
        /\ FracEq(applyPerspectiveTransform(tBounds, WithBoxYs(tBounds, tCorners)).skewY,
                  tObject.skewY)
        /\ DiffersOnlyInY(tBounds, tCorners) =>
              tObject.skewX.num = 0 /\ tObject.skewY.num = 0

\* Corners dragged in x and in y on a box wider than high: both skews are
\* set, and they differ.
C28_Witness ==
    /\ tPhase = "out"
    /\ tPreset = "none"
    /\ tBounds.width > tBounds.height
    /\ \E k \in 1..4 : tCorners[k].y # getObjectCorners(tBounds)[k].y
    /\ tObject.skewX.num # 0
    /\ ~FracEq(tObject.skewX, tObject.skewY)

-----------------------------------------------------------------------------
(* The sail the edge functions act on *)

\* The index of the sail added last, 0 with no sail.
LatestSail(objects) ==
    IF \E k \in 1..Len(objects) : IsSail(objects[k])
    THEN CHOOSE k \in 1..Len(objects) :
            /\ IsSail(objects[k])
            /\ \A j \in (k + 1)..Len(objects) : ~IsSail(objects[j])
    ELSE 0

\* The active object when it is a sail, else the sail added last.
ActedOn(objects, active) ==
    IF active = 0 THEN LatestSail(objects)
    ELSE IF IsSail(objects[active]) THEN active
    ELSE LatestSail(objects)

\* C29: getCurrentSailEdges and modifyExistingSailEdges act on the active
\* canvas object when it is a sail and otherwise on the most recently added
\* sail; with no sail on the canvas both return null and
\* modifyExistingSailEdges leaves the canvas unchanged; after a successful
\* modifyExistingSailEdges the rebuilt sail is the active object and the most
\* recently added sail.
C29_ActsOnCurrentSail ==
    /\ [](LET target == ActedOn(canvasObjects, activeObject)
              info == getCurrentSailEdges(canvasObjects, activeObject)
          IN  IF target = 0 THEN info = [found |-> FALSE]
              ELSE /\ info.found
                   /\ info.curvedEdges = canvasObjects[target].curvedEdges
                   /\ info.sailType = canvasObjects[target].sailType
                   /\ info.shapeType = canvasObjects[target].shapeType
                   /\ info.pointCount = Len(canvasObjects[target].sailPoints))
    /\ [][lastCall'.op = "modifyExistingSailEdges" =>
            LET target == ActedOn(canvasObjects, activeObject)
                last == Len(canvasObjects')
            IN  IF target = 0
                THEN /\ lastCall'.result = "null"
                     /\ canvasObjects' = canvasObjects
                     /\ activeObject' = activeObject
                ELSE /\ lastCall'.result = "sail"
                     /\ last = Len(canvasObjects)
                     /\ SubSeq(canvasObjects', 1, last - 1) = RemoveAt(canvasObjects, target)
                     /\ IsSail(canvasObjects'[last])
                     /\ canvasObjects'[last].sailPoints = canvasObjects[target].sailPoints
                     /\ canvasObjects'[last].placement = canvasObjects[target].placement
                     /\ canvasObjects'[last].curvedEdges = lastCall'.edges
                     /\ activeObject' = last
                     /\ LatestSail(canvasObjects') = last]_vars

\* modifyExistingSailEdges has made every edge of the rectangle preset
\* straight: the rebuilt sail is the last object of the canvas, above an
\* untouched triangle preset, and it is the active object.
C29_Witness ==
    /\ lastCall.op = "modifyExistingSailEdges"
    /\ lastCall.result = "sail"
    /\ Len(canvasObjects) = 2
    /\ IsDefaultSail(canvasObjects[1])
    /\ canvasObjects[2].shapeType = "rectangle"
    /\ canvasObjects[2].curvedEdges = AllFalse(4)
    /\ canvasObjects[2].pathData.builder = "polygonToMixedPath"
    /\ activeObject = 2

-----------------------------------------------------------------------------
(* The application shell: uploads, resets and the PostManager *)

\* The canvases created at most, and the post ids handed out at most.
MaxCanvases == 4

MaxPosts == 3

NewCanvas == [objects |-> {}, disposed |-> FALSE]

\* canvas.clear() on canvas c (0 for null): its objects are removed.
Cleared(canvases, c) ==
    IF c = 0 THEN canvases ELSE [canvases EXCEPT ![c].objects = {}]

\* The cleanup of the canvas effect of CanvasWorkspace: canvas.dispose().
Disposed(canvases, c) ==
    IF c = 0 THEN canvases ELSE [canvases EXCEPT ![c].disposed = TRUE]

\* handleImageUpload with no image on display: uploadedImage is set,
\* CanvasWorkspace mounts, its effect creates a fabric canvas and hands it to
\* onCanvasReady (setCanvas), and the PostManager effect runs: a manager is
\* created only when the postManager state is null.
handleImageUpload ==
    /\ ~uploadedImage
    /\ Len(fabricCanvases) < MaxCanvases
    /\ uploadedImage' = TRUE
    /\ fabricCanvases' = Append(fabricCanvases, NewCanvas)
    /\ fabricCanvasRef' = Len(fabricCanvases) + 1
    /\ canvas' = Len(fabricCanvases) + 1
    /\ postManager' = (IF postManager.canvas = 0
                       THEN [canvas |-> Len(fabricCanvases) + 1, posts |-> {}, nextId |-> 1]
                       ELSE postManager)
    /\ UNCHANGED <<simplifyVars, pathVars, canvasVars, perspVars>>

\* handleReset: uploadedImage is cleared and the canvas of the canvas state is
\* cleared; CanvasWorkspace unmounts and the cleanup of its effect disposes of
\* its canvas.  The canvas and postManager states are left as they are.
handleReset ==
    /\ uploadedImage
    /\ uploadedImage' = FALSE
    /\ fabricCanvases' = Disposed(Cleared(fabricCanvases, canvas), fabricCanvasRef)
    /\ fabricCanvasRef' = 0
    /\ UNCHANGED <<canvas, postManager>>
    /\ UNCHANGED <<simplifyVars, pathVars, canvasVars, perspVars>>

\* postManager.addPost(...) from the post controls, which are rendered while
\* an image is on display.  The post object is added to the canvas the
\* manager was constructed with; on a disposed canvas the library either
\* accepts the object or throws before the post is stored.
addPost ==
    /\ uploadedImage
    /\ postManager.canvas # 0
    /\ postManager.nextId <= MaxPosts
    /\ LET id == postManager.nextId
           c == postManager.canvas
       IN  \/ /\ fabricCanvases' = [fabricCanvases EXCEPT ![c].objects = @ \cup {id}]
              /\ postManager' = [postManager EXCEPT !.posts = @ \cup {id}, !.nextId = id + 1]
           \/ /\ fabricCanvases[c].disposed
              /\ fabricCanvases' = fabricCanvases
              /\ postManager' = [postManager EXCEPT !.nextId = id + 1]
    /\ UNCHANGED <<uploadedImage, canvas, fabricCanvasRef>>
    /\ UNCHANGED <<simplifyVars, pathVars, canvasVars, perspVars>>

\* postManager.removePost(id): the post object is removed from the canvas of
\* the manager and the post from its map.
removePost(id) ==
    /\ uploadedImage
    /\ id \in postManager.posts
    /\ fabricCanvases' = [fabricCanvases EXCEPT ![postManager.canvas].objects = @ \ {id}]
    /\ postManager' = [postManager EXCEPT !.posts = @ \ {id}]
    /\ UNCHANGED <<uploadedImage, canvas, fabricCanvasRef>>
    /\ UNCHANGED <<simplifyVars, pathVars, canvasVars, perspVars>>

AppInit ==
    /\ SimplifyIdle
    /\ PathIdle
    /\ PerspIdle
    /\ AppIdle
    /\ CanvasInit

NextApp ==
    \/ handleImageUpload
    \/ handleReset
    \/ addPost
    \/ \E id \in 1..MaxPosts : removePost(id)

SpecApp == AppInit /\ [][NextApp]_vars

\* The ids getAllPosts lists.
getAllPosts == postManager.posts

\* C30: after any sequence of image upload, workspace reset and new upload,
\* the PostManager held by ShadeSailVisualizer is bound to the canvas on
\* display, so that addPost places the post on that canvas and every post
\* getAllPosts lists has its object on it.
C30_ManagerOnDisplayedCanvas ==
    uploadedImage =>
        /\ postManager.canvas # 0
        /\ postManager.canvas = fabricCanvasRef
        /\ \A id \in getAllPosts : id \in fabricCanvases[fabricCanvasRef].objects

=============================================================================
